---- MODULE Spec2Model ----
(***************************************************************************)
(* Job orchestration layer of the temple solver (solver-python/            *)
(* server_prod.py): the job map, the FIFO job queue, the per-IP rate-limit *)
(* map, the request handlers /solve, /job/<id>, /abort/<id>, the worker    *)
(* thread and the solver subprocess it supervises.                         *)
(*                                                                         *)
(* Every `with state_lock:` block of the source is one atomic action that  *)
(* is enabled only while the lock is free; the one block that calls a      *)
(* function which takes the lock again (get_job -> get_queue_position) is  *)
(* split, so that the thread is seen holding the lock while it waits for   *)
(* it.  Steps of one thread that commute with every step of the other      *)
(* threads (a read of a queue only this thread reads, the start of the     *)
(* subprocess right after the job is claimed) are taken together with the  *)
(* block they precede.  A handler that refuses a request answers and       *)
(* changes nothing: its answer is an operator on the state (RateLimited,   *)
(* QueueFull, get_job_response, abort_job_response) and the refusal is no  *)
(* step.  Fields that are only reported or handed to the solver (config,   *)
(* solver_input, queued_at, ip, total_solves, completed_solves_history)    *)
(* are left out.                                                           *)
(*                                                                         *)
(* time.time() is read in the step that enters the block.  Time is counted *)
(* in ticks of the clock `now`; one tick is RATE_LIMIT_SECONDS long and    *)
(* longer than the 300 s of RESULT_TTL_SECONDS, so in ticks the test       *)
(* `now - completed_at > RESULT_TTL_SECONDS` is `now - completed_at > 0`.  *)
(***************************************************************************)
EXTENDS Integers, Sequences, FiniteSets, TLC

\* ---------------------------------------------------------------- bounds
MaxJobs == 2          \* job ids minted in one run
MaxTime == 1          \* last tick of the clock
MaxScore == 1         \* improving solutions one solver run reports
MaxObjective == 2     \* largest total_value of a layout the solver finds
MaxLayouts == 3       \* layouts the solver finds in one run
MaxStream == 12       \* layouts of a run that overfills solution_queue
GridHalfWidth == 1    \* columns of the grid kept on each side of the foyer
GridHeight == 2       \* rows of the grid kept, from the foyer row up

\* ------------------------------------------------------ program constants
\* MAX_CONCURRENT_SOLVES, MAX_QUEUE_SIZE and RATE_LIMIT_SECONDS are read from
\* the environment (24-26); these are the values of the deployment modelled.
\* RATE_LIMIT_SECONDS and RESULT_TTL_SECONDS are in ticks of `now`.
MAX_CONCURRENT_SOLVES == 1
MAX_QUEUE_SIZE == 1
RATE_LIMIT_SECONDS == 1
RESULT_TTL_SECONDS == 0
MAX_IP_CACHE == 10000
SOLUTION_QUEUE_MAXSIZE == 10
GRID_SIZE == 9

RequestThreads == {"r1", "r2"}
Workers == 1..MAX_CONCURRENT_SOLVES
Clients == {"ipA", "ipB"}
JobIds == 1..MaxJobs

NoTime == -1
NoJob == 0
NoSolution == [kind |-> "none", score |-> 0]
Terminal == {"complete", "error", "aborted"}
FOYER_POS == <<5, 1>>

\* the solver side while no solve_temple run is looked at
NoInput == "none"
NoCallback == "none"
NoSolver == [status |-> "IDLE", found |-> <<>>]
NoResult == [pending |-> TRUE]

VARIABLES
  now,             \* wall clock
  state_lock,      \* "free" or the thread holding threading.Lock()
  jobs,            \* job_id -> job record
  job_order,       \* insertion order of the keys of jobs (dict order)
  job_queue,       \* queue.Queue() of job ids
  ip_last_solve,   \* OrderedDict ip -> time, as a sequence of [ip, at]
  next_id,         \* number of job ids minted so far (uuid4 is fresh)
  req,             \* request thread -> [pc, op, ip, job_id]
  wk,              \* worker -> [pc, job_id, aborted]
  proc,            \* worker -> state of the subprocess it started
  emitted,         \* worker -> score of the last solution the solver found
  solution_queue,  \* worker -> multiprocessing.Queue(maxsize=10)
  result_queue,    \* worker -> multiprocessing.Queue()
  input_data,      \* solve_temple: its SolverInput
  callback,        \* solve_temple: its SolutionCallback object
  solver,          \* solve_temple: the CpSolver, its status and solutions
  result,          \* solve_temple: the SolverOutput it returned
  room_type,       \* CP model: cell -> value of room_type[pos]
  in_temple,       \* CP model: cell -> value of in_temple[pos]
  edge_var,        \* CP model: adjacent pair -> value of its edge_var
  chain_idx,       \* CP model: cell -> value of chain_idx[pos], with chains
  reach_sat,       \* CP model: do the reachability constraints have a solution
  model_status     \* CP model: is the assignment a solution of the model

vars == <<now, state_lock, jobs, job_order, job_queue, ip_last_solve,
          next_id, req, wk, proc, emitted, solution_queue,
          result_queue, input_data, callback, solver, result,
          room_type, in_temple, edge_var, chain_idx, reach_sat,
          model_status>>

sharedVars == <<jobs, job_order, job_queue, ip_last_solve>>
procVars == <<proc, emitted, solution_queue, result_queue>>
solveVars == <<input_data, callback, solver, result>>
modelVars == <<room_type, in_temple, edge_var, chain_idx, reach_sat,
               model_status>>
solverVars == <<solveVars, modelVars>>
serverVars == <<now, state_lock, sharedVars, next_id, req, wk, procVars>>

SolverIdle ==
  /\ input_data = NoInput
  /\ callback = NoCallback
  /\ solver = NoSolver
  /\ result = NoResult
  /\ room_type = <<>>
  /\ in_temple = <<>>
  /\ edge_var = <<>>
  /\ chain_idx = <<>>
  /\ reach_sat = "unchecked"
  /\ model_status = "none"

\* ------------------------------------------------------------- helpers
RECURSIVE SelectIds(_, _)
SelectIds(s, keep) ==
  IF s = <<>> THEN <<>>
  ELSE IF Head(s) \in keep THEN <<Head(s)>> \o SelectIds(Tail(s), keep)
       ELSE SelectIds(Tail(s), keep)

RECURSIVE IndexOf(_, _)
IndexOf(s, x) == IF Head(s) = x THEN 1 ELSE 1 + IndexOf(Tail(s), x)

SeqRange(s) == {s[i] : i \in 1..Len(s)}

IdleReq == [pc |-> "idle", op |-> "", ip |-> "", job_id |-> NoJob]
IdleWorker == [pc |-> "get", job_id |-> NoJob, aborted |-> FALSE]

\* 562-573; config and solver_input are not read by the orchestration
NewJob ==
  [status |-> "queued", started_at |-> NoTime, completed_at |-> NoTime,
   best_solution |-> NoSolution, result |-> NoSolution, error |-> "",
   process |-> 0]

is_alive(w) == proc[w] \in {"alive", "terminating"}

\* proc.terminate(): SIGTERM to a live process, which then dies
terminate(p) == IF p = "alive" THEN "terminating" ELSE p

\* ------------------------------------------------- rate limiting (91-109)
IpIndex(ip) == {i \in 1..Len(ip_last_solve) : ip_last_solve[i].ip = ip}

\* check_rate_limit: <<allowed, wait_seconds>>
check_rate_limit(ip) ==
  IF IpIndex(ip) /= {}
     /\ now - ip_last_solve[CHOOSE i \in IpIndex(ip) : TRUE].at < RATE_LIMIT_SECONDS
  THEN <<FALSE, RATE_LIMIT_SECONDS
                - (now - ip_last_solve[CHOOSE i \in IpIndex(ip) : TRUE].at)>>
  ELSE <<TRUE, 0>>

RECURSIVE DropIp(_, _)
DropIp(s, ip) ==
  IF s = <<>> THEN <<>>
  ELSE IF Head(s).ip = ip THEN DropIp(Tail(s), ip)
       ELSE <<Head(s)>> \o DropIp(Tail(s), ip)

RECURSIVE TrimIpCache(_)
TrimIpCache(s) == IF Len(s) > MAX_IP_CACHE THEN TrimIpCache(Tail(s)) ELSE s

\* record_rate_limit: the new value of ip_last_solve
record_rate_limit(ip) ==
  TrimIpCache(DropIp(ip_last_solve, ip) \o <<[ip |-> ip, at |-> now]>>)

\* ------------------------------------------------ queue queries (112-130)
QueuedJobs == SelectIds(job_order, {j \in DOMAIN jobs : jobs[j].status = "queued"})

\* the position counted from 0, as list.index returns it
get_queue_position_0_indexed(job_id) ==
  IF job_id \in SeqRange(QueuedJobs) THEN IndexOf(QueuedJobs, job_id) - 1 ELSE 0

get_queue_position(job_id) ==
  IF job_id \in SeqRange(QueuedJobs) THEN IndexOf(QueuedJobs, job_id) ELSE 0

get_queue_length == Cardinality({j \in DOMAIN jobs : jobs[j].status = "queued"})

get_active_count == Cardinality({j \in DOMAIN jobs : jobs[j].status = "solving"})

\* ---------------------------------------------- cleanup_old_jobs (133-144)
Expired ==
  {j \in DOMAIN jobs : /\ jobs[j].status \in Terminal
                       /\ now - jobs[j].completed_at > RESULT_TTL_SECONDS}

JobsAfterCleanup == [j \in (DOMAIN jobs) \ Expired |-> jobs[j]]
OrderAfterCleanup == SelectIds(job_order, (DOMAIN jobs) \ Expired)

\* --------------------------------------------------------------- Init
Init ==
  /\ now = 0
  /\ state_lock = "free"
  /\ jobs = <<>>
  /\ job_order = <<>>
  /\ job_queue = <<>>
  /\ ip_last_solve = <<>>
  /\ next_id = 0
  /\ req = [t \in RequestThreads |-> IdleReq]
  /\ wk = [w \in Workers |-> IdleWorker]
  /\ proc = [w \in Workers |-> "none"]
  /\ emitted = [w \in Workers |-> 0]
  /\ solution_queue = [w \in Workers |-> <<>>]
  /\ result_queue = [w \in Workers |-> <<>>]
  /\ SolverIdle

Tick ==
  /\ now < MaxTime
  /\ now' = now + 1
  /\ UNCHANGED <<state_lock, jobs, job_order, job_queue, ip_last_solve,
                 next_id, req, wk, proc, emitted,
                 solution_queue, result_queue>>
  /\ UNCHANGED solverVars

\* the response of a handler: HTTP status code and JSON body
Reply(code, body) == [code |-> code, body |-> body]

\* ============================================================ POST /solve
\* 505-511: the answer to a submit that check_rate_limit refuses
RateLimited(ip) ==
  Reply(429, [success |-> FALSE, error |-> "Rate limited",
              retry_after |-> check_rate_limit(ip)[2]])

\* 514-520: the answer to a submit that finds the queue full
QueueFull ==
  Reply(503, [success |-> FALSE, error |-> "Queue full", queue_full |-> TRUE])

\* 502-511: client_ip = get_client_ip(); check_rate_limit.  A refused submit
\* is answered RateLimited(ip) and changes nothing.
solve_check_rate_limit(t, ip) ==
  /\ req[t].pc = "idle"
  /\ state_lock = "free"
  /\ check_rate_limit(ip)[1]
  /\ req' = [req EXCEPT ![t] = [pc |-> "queue_len", op |-> "solve",
                                ip |-> ip, job_id |-> NoJob]]
  /\ UNCHANGED <<now, state_lock, sharedVars, next_id, wk, procVars>>
  /\ UNCHANGED solverVars

\* ids minted so far plus those of the submits that passed validation
Reserved == next_id + Cardinality({u \in RequestThreads : req[u].pc = "admit"})

\* a solve that records the rate limit before it validates the body
solve_check_queue_records_first(t, well_formed) ==
  /\ req[t].pc = "queue_len"
  /\ state_lock = "free"
  /\ IF get_queue_length >= MAX_QUEUE_SIZE
     THEN /\ req' = [req EXCEPT ![t] = IdleReq]
          /\ UNCHANGED ip_last_solve
     ELSE IF ~well_formed
     THEN /\ req' = [req EXCEPT ![t] = IdleReq]
          /\ ip_last_solve' = record_rate_limit(req[t].ip)
     ELSE /\ Reserved < MaxJobs
          /\ req' = [req EXCEPT ![t].pc = "admit"]
          /\ UNCHANGED ip_last_solve
  /\ UNCHANGED <<now, state_lock, jobs, job_order, job_queue, next_id, wk,
                 procVars>>
  /\ UNCHANGED solverVars

\* 513-552: get_queue_length and the capacity test (answer QueueFull); then
\* the body is parsed: a body without JSON or without `architect` is answered
\* 400, otherwise the SolverInput is built
solve_check_queue(t, well_formed) ==
  /\ req[t].pc = "queue_len"
  /\ state_lock = "free"
  /\ IF get_queue_length >= MAX_QUEUE_SIZE \/ ~well_formed
     THEN req' = [req EXCEPT ![t] = IdleReq]
     ELSE /\ Reserved < MaxJobs
          /\ req' = [req EXCEPT ![t].pc = "admit"]
  /\ UNCHANGED <<now, state_lock, sharedVars, next_id, wk, procVars>>
  /\ UNCHANGED solverVars

\* 555-573: a fresh job id, record_rate_limit(client_ip) and, in a second
\* block under the lock, the new job in the job map.  Between the two blocks
\* only ip_last_solve differs, which no step of another thread that can come
\* between them reads without being rejected by it either way, so the two
\* blocks are taken as one step.
solve_admit(t) ==
  LET job_id == next_id + 1 IN
  /\ req[t].pc = "admit"
  /\ state_lock = "free"
  /\ next_id' = job_id
  /\ ip_last_solve' = record_rate_limit(req[t].ip)
  /\ jobs' = jobs @@ (job_id :> NewJob)
  /\ job_order' = Append(job_order, job_id)
  /\ req' = [req EXCEPT ![t] = [pc |-> "put", op |-> "solve", ip |-> "",
                                job_id |-> job_id]]
  /\ UNCHANGED <<now, state_lock, job_queue, wk, procVars>>
  /\ UNCHANGED solverVars

\* 576: job_queue.put(job_id)
solve_queue_put(t) ==
  /\ req[t].pc = "put"
  /\ job_queue' = Append(job_queue, req[t].job_id)
  /\ req' = [req EXCEPT ![t].pc = "position"]
  /\ UNCHANGED <<now, state_lock, jobs, job_order, ip_last_solve,
                 next_id, wk, procVars>>
  /\ UNCHANGED solverVars

\* get_queue_position (112-118) called by a handler: it takes state_lock,
\* which is a threading.Lock() and so is not granted to a thread that already
\* holds it.  The caller then finishes: solve answers 200 with the position
\* (578-587); get_job adds the position to its answer and leaves its own
\* `with` block (444-460).
call_get_queue_position(t) ==
  /\ req[t].pc = "position"
  /\ state_lock = "free"
  /\ req' = [req EXCEPT ![t] = IdleReq]
  /\ UNCHANGED <<now, state_lock, sharedVars, next_id, wk, procVars>>
  /\ UNCHANGED solverVars

\* ======================================================= GET /job/<job_id>
\* 432-460: the answer for a job that is not queued
get_job_response(job_id) ==
  IF job_id \notin DOMAIN jobs
  THEN Reply(404, [status |-> "not_found"])
  ELSE
  LET job == jobs[job_id]
      base == [status |-> job.status, job_id |-> job_id]
  IN  IF job.status = "solving"
      THEN IF job.best_solution /= NoSolution
           THEN Reply(200, base @@ [elapsed_seconds |-> now - job.started_at,
                                    best_solution |-> job.best_solution])
           ELSE Reply(200, base @@ [elapsed_seconds |-> now - job.started_at])
      ELSE IF job.status = "complete"
      THEN Reply(200, base @@ [result |-> job.result,
                               duration |-> job.completed_at - job.started_at])
      ELSE IF job.status = "error"
      THEN Reply(200, base @@ [error |-> job.error])
      ELSE Reply(200, base)

\* 428-460.  For a job that is not queued the handler answers
\* get_job_response(job_id) inside its `with state_lock` block and changes
\* nothing.  A queued job leads to the nested get_queue_position call with
\* state_lock held by this thread.
get_job(t, job_id) ==
  /\ req[t].pc = "idle"
  /\ state_lock = "free"
  /\ job_id \in DOMAIN jobs
  /\ jobs[job_id].status = "queued"
  /\ state_lock' = t
  /\ req' = [req EXCEPT ![t] = [pc |-> "position", op |-> "get_job",
                                ip |-> "", job_id |-> job_id]]
  /\ UNCHANGED <<now, sharedVars, next_id, wk, procVars>>
  /\ UNCHANGED solverVars

\* ==================================================== POST /abort/<job_id>
\* the answer of an abort_job whose status test leaves out "aborted"
abort_job_response_twice(job_id) ==
  IF job_id \notin DOMAIN jobs
  THEN Reply(404, [success |-> FALSE, error |-> "Job not found"])
  ELSE IF jobs[job_id].status \in {"complete", "error"}
  THEN Reply(400, [success |-> FALSE,
                   error |-> "Job already " \o jobs[job_id].status])
  ELSE Reply(200, [success |-> TRUE, message |-> "Job aborted"])

\* 474-479, 493: the answer of abort_job
abort_job_response(job_id) ==
  IF job_id \notin DOMAIN jobs
  THEN Reply(404, [success |-> FALSE, error |-> "Job not found"])
  ELSE IF jobs[job_id].status \in {"complete", "error", "aborted"}
  THEN Reply(400, [success |-> FALSE,
                   error |-> "Job already " \o jobs[job_id].status])
  ELSE Reply(200, [success |-> TRUE, message |-> "Job aborted"])

\* 470-493: a refused abort changes nothing; otherwise the job is marked
\* aborted and its subprocess, if the reference is stored and it is alive,
\* is sent SIGTERM
abort_job(t, job_id) ==
  /\ req[t].pc = "idle"
  /\ state_lock = "free"
  /\ abort_job_response(job_id).body.success
  /\ jobs' = [jobs EXCEPT ![job_id].status = "aborted",
                          ![job_id].completed_at = now]
  /\ proc' = IF jobs[job_id].process /= 0
             THEN [proc EXCEPT ![jobs[job_id].process] = terminate(@)]
             ELSE proc
  /\ UNCHANGED <<now, state_lock, job_order, job_queue, ip_last_solve,
                 next_id, req, wk, emitted, solution_queue, result_queue>>
  /\ UNCHANGED solverVars

\* =========================================================== worker_thread
SetWk(w, pc) == [wk EXCEPT ![w].pc = pc]

\* 201-229: job_id = job_queue.get(); a job that is gone or no longer queued
\* is skipped, any other is marked solving and a subprocess with fresh queues
\* is started for it
worker_get(w) ==
  LET id == Head(job_queue) IN
  /\ wk[w].pc = "get"
  /\ job_queue /= <<>>
  /\ state_lock = "free"
  /\ job_queue' = Tail(job_queue)
  /\ IF id \notin DOMAIN jobs \/ jobs[id].status /= "queued"
     THEN UNCHANGED <<jobs, wk, procVars>>
     ELSE /\ jobs' = [jobs EXCEPT ![id].status = "solving",
                                  ![id].started_at = now]
          /\ wk' = [wk EXCEPT ![w] = [pc |-> "store", job_id |-> id,
                                      aborted |-> FALSE]]
          /\ proc' = [proc EXCEPT ![w] = "alive"]
          /\ emitted' = [emitted EXCEPT ![w] = 0]
          /\ solution_queue' = [solution_queue EXCEPT ![w] = <<>>]
          /\ result_queue' = [result_queue EXCEPT ![w] = <<>>]
  /\ UNCHANGED <<now, state_lock, job_order, ip_last_solve, next_id, req>>
  /\ UNCHANGED solverVars

\* 232-238: the process reference is stored in the job
worker_store_proc(w) ==
  /\ wk[w].pc = "store"
  /\ state_lock = "free"
  /\ jobs' = IF wk[w].job_id \in DOMAIN jobs
             THEN [jobs EXCEPT ![wk[w].job_id].process = w]
             ELSE jobs
  /\ wk' = [wk EXCEPT ![w].pc = "poll", ![w].aborted = FALSE]
  /\ UNCHANGED <<now, state_lock, job_order, job_queue, ip_last_solve,
                 next_id, req, procVars>>
  /\ UNCHANGED solverVars

\* 240-251: while proc.is_alive(): on an aborted job terminate, join, kill,
\* join and leave the loop with aborted set
worker_poll(w) ==
  /\ wk[w].pc = "poll"
  /\ IF is_alive(w)
     THEN /\ state_lock = "free"
          /\ IF /\ wk[w].job_id \in DOMAIN jobs
                /\ jobs[wk[w].job_id].status = "aborted"
             THEN /\ proc' = [proc EXCEPT ![w] = "dead"]
                  /\ wk' = [wk EXCEPT ![w].pc = "final", ![w].aborted = TRUE]
             ELSE /\ wk' = SetWk(w, "drain")
                  /\ UNCHANGED proc
     ELSE /\ wk' = SetWk(w, "final")
          /\ UNCHANGED proc
  /\ UNCHANGED <<now, state_lock, sharedVars, next_id, req,
                 emitted, solution_queue, result_queue>>
  /\ UNCHANGED solverVars

\* a drain that takes the newest solution of the queue first
worker_drain_lifo(w) ==
  /\ wk[w].pc = "drain"
  /\ IF solution_queue[w] /= <<>>
     THEN /\ state_lock = "free"
          /\ solution_queue' =
               [solution_queue EXCEPT ![w] = SubSeq(@, 1, Len(@) - 1)]
          /\ jobs' = IF /\ wk[w].job_id \in DOMAIN jobs
                        /\ jobs[wk[w].job_id].status = "solving"
                     THEN [jobs EXCEPT ![wk[w].job_id].best_solution =
                             solution_queue[w][Len(solution_queue[w])]]
                     ELSE jobs
          /\ UNCHANGED wk
     ELSE /\ wk' = SetWk(w, "poll")
          /\ UNCHANGED <<jobs, solution_queue>>
  /\ UNCHANGED <<now, state_lock, job_order, job_queue, ip_last_solve,
                 next_id, req, proc, emitted,
                 result_queue>>
  /\ UNCHANGED solverVars

\* 254-264: drain solution_queue; each solution is stored under the lock if
\* the job is still solving; Empty ends the drain, then sleep and loop
worker_drain(w) ==
  /\ wk[w].pc = "drain"
  /\ IF solution_queue[w] /= <<>>
     THEN /\ state_lock = "free"
          /\ solution_queue' = [solution_queue EXCEPT ![w] = Tail(@)]
          /\ jobs' = IF /\ wk[w].job_id \in DOMAIN jobs
                        /\ jobs[wk[w].job_id].status = "solving"
                     THEN [jobs EXCEPT ![wk[w].job_id].best_solution =
                                          Head(solution_queue[w])]
                     ELSE jobs
          /\ UNCHANGED wk
     ELSE /\ wk' = SetWk(w, "poll")
          /\ UNCHANGED <<jobs, solution_queue>>
  /\ UNCHANGED <<now, state_lock, job_order, job_queue, ip_last_solve,
                 next_id, req, proc, emitted,
                 result_queue>>
  /\ UNCHANGED solverVars

\* 297-325: an aborted job keeps its status and takes best_solution as its
\* result; otherwise the job becomes complete with the output
UpdateJob(w, output) ==
  LET id == wk[w].job_id IN
  IF id \in DOMAIN jobs
  THEN IF wk[w].aborted
       THEN [jobs EXCEPT
               ![id].result = IF jobs[id].best_solution /= NoSolution
                              THEN jobs[id].best_solution ELSE @,
               ![id].process = 0]
       ELSE [jobs EXCEPT ![id].status = "complete",
                         ![id].completed_at = now,
                         ![id].result = output,
                         ![id].process = 0]
  ELSE jobs

\* an error branch that does not find the message of the subprocess
SubprocessError_unknown(w, final) ==
  LET id == wk[w].job_id IN
  IF id \in DOMAIN jobs
  THEN [jobs EXCEPT ![id].status = "error", ![id].completed_at = now,
                    ![id].error = "Unknown error"]
  ELSE jobs

\* 278-282: the subprocess reported an error
SubprocessError(w, final) ==
  LET id == wk[w].job_id IN
  IF id \in DOMAIN jobs
  THEN [jobs EXCEPT ![id].status = "error", ![id].completed_at = now,
                    ![id].error = final.error]
  ELSE jobs

\* a crash branch that leaves the job as it is
SubprocessCrashed_unmarked(w) == jobs

\* 286-292: no final message, the process was killed or crashed
SubprocessCrashed(w) ==
  LET id == wk[w].job_id IN
  IF id \in DOMAIN jobs /\ jobs[id].status = "solving"
  THEN [jobs EXCEPT ![id].status = "error", ![id].completed_at = now,
                    ![id].error = "Solver process crashed"]
  ELSE jobs

\* 267-325: after the loop.  Unless aborted the final message is read from
\* result_queue (only this thread reads it and the process is gone): a
\* "complete" message is the output stored by the update block, an "error"
\* message or no message ends the job as error.
worker_final(w) ==
  /\ wk[w].pc = "final"
  /\ state_lock = "free"
  /\ IF wk[w].aborted
     THEN /\ jobs' = UpdateJob(w, NoSolution)
          /\ UNCHANGED <<result_queue>>
     ELSE IF result_queue[w] /= <<>>
     THEN /\ result_queue' = [result_queue EXCEPT ![w] = Tail(@)]
          /\ IF Head(result_queue[w]).status = "complete"
             THEN jobs' = UpdateJob(w, Head(result_queue[w]).result)
             ELSE jobs' = SubprocessError(w, Head(result_queue[w]))
     ELSE /\ jobs' = SubprocessCrashed(w)
          /\ UNCHANGED <<result_queue>>
  /\ wk' = SetWk(w, "cleanup")
  /\ UNCHANGED <<now, state_lock, job_order, job_queue, ip_last_solve,
                 next_id, req, proc, emitted, solution_queue>>
  /\ UNCHANGED solverVars

\* 284, 293, 328: cleanup_old_jobs(), then back to job_queue.get(); the
\* process and its queues are dropped with the loop's locals
worker_cleanup(w) ==
  /\ wk[w].pc = "cleanup"
  /\ state_lock = "free"
  /\ jobs' = JobsAfterCleanup
  /\ job_order' = OrderAfterCleanup
  /\ wk' = [wk EXCEPT ![w] = IdleWorker]
  /\ proc' = [proc EXCEPT ![w] = "none"]
  /\ emitted' = [emitted EXCEPT ![w] = 0]
  /\ solution_queue' = [solution_queue EXCEPT ![w] = <<>>]
  /\ result_queue' = [result_queue EXCEPT ![w] = <<>>]
  /\ UNCHANGED <<now, state_lock, job_queue, ip_last_solve, next_id, req>>
  /\ UNCHANGED solverVars

\* ======================================================= solver_subprocess
\* 153-157: on_solution puts without blocking; a full queue drops the put
solver_on_solution(w) ==
  /\ proc[w] = "alive"
  /\ result_queue[w] = <<>>
  /\ emitted[w] < MaxScore
  /\ emitted' = [emitted EXCEPT ![w] = @ + 1]
  /\ solution_queue' =
       IF Len(solution_queue[w]) < SOLUTION_QUEUE_MAXSIZE
       THEN [solution_queue EXCEPT ![w] =
               Append(@, [kind |-> "best", score |-> emitted[w] + 1])]
       ELSE solution_queue
  /\ UNCHANGED <<now, state_lock, sharedVars, next_id, req, wk,
                 proc, result_queue>>
  /\ UNCHANGED solverVars

\* 160-187: solve_temple returns, the output is put on result_queue
solver_complete(w) ==
  /\ proc[w] = "alive"
  /\ result_queue[w] = <<>>
  /\ result_queue' = [result_queue EXCEPT ![w] =
       <<[status |-> "complete",
          result |-> [kind |-> "final", score |-> emitted[w]],
          error |-> ""]>>]
  /\ UNCHANGED <<now, state_lock, sharedVars, next_id, req, wk,
                 proc, emitted, solution_queue>>
  /\ UNCHANGED solverVars

\* 189-191: an exception in the solver is reported as an error message
solver_error(w) ==
  /\ proc[w] = "alive"
  /\ result_queue[w] = <<>>
  /\ result_queue' = [result_queue EXCEPT ![w] =
       <<[status |-> "error", result |-> NoSolution,
          error |-> "solver exception"]>>]
  /\ UNCHANGED <<now, state_lock, sharedVars, next_id, req, wk,
                 proc, emitted, solution_queue>>
  /\ UNCHANGED solverVars

\* the subprocess returns from solver_subprocess after its put
proc_exit(w) ==
  /\ proc[w] = "alive"
  /\ result_queue[w] /= <<>>
  /\ proc' = [proc EXCEPT ![w] = "dead"]
  /\ UNCHANGED <<now, state_lock, sharedVars, next_id, req, wk,
                 emitted, solution_queue, result_queue>>
  /\ UNCHANGED solverVars

\* the subprocess dies before any put (crash, external kill)
proc_crash(w) ==
  /\ proc[w] = "alive"
  /\ result_queue[w] = <<>>
  /\ proc' = [proc EXCEPT ![w] = "dead"]
  /\ UNCHANGED <<now, state_lock, sharedVars, next_id, req, wk,
                 emitted, solution_queue, result_queue>>
  /\ UNCHANGED solverVars

\* the subprocess dies of the SIGTERM sent by abort_job (489)
proc_terminated(w) ==
  /\ proc[w] = "terminating"
  /\ proc' = [proc EXCEPT ![w] = "dead"]
  /\ UNCHANGED <<now, state_lock, sharedVars, next_id, req, wk,
                 emitted, solution_queue, result_queue>>
  /\ UNCHANGED solverVars

\* ------------------------------------------------------------------ Next
Next ==
  \/ Tick
  \/ \E t \in RequestThreads, ip \in Clients : solve_check_rate_limit(t, ip)
  \/ \E t \in RequestThreads, ok \in BOOLEAN : solve_check_queue(t, ok)
  \/ \E t \in RequestThreads : solve_admit(t)
  \/ \E t \in RequestThreads : solve_queue_put(t)
  \/ \E t \in RequestThreads : call_get_queue_position(t)
  \/ \E t \in RequestThreads, j \in JobIds : get_job(t, j)
  \/ \E t \in RequestThreads, j \in JobIds : abort_job(t, j)
  \/ \E w \in Workers : worker_get(w)
  \/ \E w \in Workers : worker_store_proc(w)
  \/ \E w \in Workers : worker_poll(w)
  \/ \E w \in Workers : worker_drain(w)
  \/ \E w \in Workers : worker_final(w)
  \/ \E w \in Workers : worker_cleanup(w)
  \/ \E w \in Workers : solver_on_solution(w)
  \/ \E w \in Workers : solver_complete(w)
  \/ \E w \in Workers : solver_error(w)
  \/ \E w \in Workers : proc_exit(w)
  \/ \E w \in Workers : proc_crash(w)
  \/ \E w \in Workers : proc_terminated(w)

Spec == Init /\ [][Next]_vars

\* ---------------------------------------------------------- fair runs
\* One request thread, a stopped clock: the runs in which threads are
\* scheduled fairly.  A thread that can take its next step takes it;
\* a process that was sent SIGTERM dies; a solver run ends.  New requests
\* need not arrive.
LiveThreads == {"r1"}

NextLive ==
  \/ \E t \in LiveThreads, ip \in Clients : solve_check_rate_limit(t, ip)
  \/ \E t \in LiveThreads, ok \in BOOLEAN : solve_check_queue(t, ok)
  \/ \E t \in LiveThreads : solve_admit(t)
  \/ \E t \in LiveThreads : solve_queue_put(t)
  \/ \E t \in LiveThreads : call_get_queue_position(t)
  \/ \E t \in LiveThreads, j \in JobIds : get_job(t, j)
  \/ \E t \in LiveThreads, j \in JobIds : abort_job(t, j)
  \/ \E w \in Workers : worker_get(w)
  \/ \E w \in Workers : worker_store_proc(w)
  \/ \E w \in Workers : worker_poll(w)
  \/ \E w \in Workers : worker_drain(w)
  \/ \E w \in Workers : worker_final(w)
  \/ \E w \in Workers : worker_cleanup(w)
  \/ \E w \in Workers : solver_on_solution(w)
  \/ \E w \in Workers : solver_complete(w)
  \/ \E w \in Workers : solver_error(w)
  \/ \E w \in Workers : proc_exit(w)
  \/ \E w \in Workers : proc_crash(w)
  \/ \E w \in Workers : proc_terminated(w)

Fairness ==
  /\ \A t \in LiveThreads :
       /\ WF_vars(\E ok \in BOOLEAN : solve_check_queue(t, ok))
       /\ WF_vars(solve_admit(t))
       /\ WF_vars(solve_queue_put(t))
       /\ WF_vars(call_get_queue_position(t))
  /\ \A w \in Workers :
       /\ WF_vars(worker_get(w))
       /\ WF_vars(worker_store_proc(w))
       /\ WF_vars(worker_poll(w))
       /\ WF_vars(worker_drain(w))
       /\ WF_vars(worker_final(w))
       /\ WF_vars(worker_cleanup(w))
       /\ WF_vars(solver_complete(w) \/ solver_error(w) \/ proc_crash(w))
       /\ WF_vars(proc_exit(w))
       /\ WF_vars(proc_terminated(w))

LiveSpec == Init /\ [][NextLive]_vars /\ Fairness

\* ============================================================ solve_temple
\* One run of solve_temple (temple_solver.py 660-1847) inside the subprocess
\* of a solving job, with the worker of server_prod.py polling it.  A layout
\* the solver finds is kept by its number; of a layout only its objective
\* value and whether it has a Spymaster after a Commander in a linear chain
\* (what validate_spy_cmd_constraint looks for) are kept.

Max(a, b) == IF a > b THEN a ELSE b
Abs(a) == IF a < 0 THEN 0 - a ELSE a

RECURSIVE Flatten(_)
Flatten(ss) == IF ss = <<>> THEN <<>> ELSE Head(ss) \o Flatten(Tail(ss))

\* 275-282 get_neighbors offsets, in the order the source lists them
DIRS == <<<<-1, 0>>, <<1, 0>>, <<0, -1>>, <<0, 1>>>>

InGrid(x, y) == 1 <= x /\ x <= GRID_SIZE /\ 1 <= y /\ y <= GRID_SIZE

Hint(check, text) == [check |-> check, text |-> text]

\* 547-549: existing_positions, existing_path_positions, all_existing
existing_positions(i) ==
  {<<i.existing_rooms[k].x, i.existing_rooms[k].y>> :
     k \in 1..Len(i.existing_rooms)}
all_existing(i) ==
  existing_positions(i) \cup {i.existing_paths[k] : k \in 1..Len(i.existing_paths)}

existing_type_at(i, pos) ==
  LET k == CHOOSE k \in 1..Len(i.existing_rooms) :
             /\ <<i.existing_rooms[k].x, i.existing_rooms[k].y>> = pos
             /\ \A m \in (k+1)..Len(i.existing_rooms) :
                  <<i.existing_rooms[m].x, i.existing_rooms[m].y>> /= pos
  IN i.existing_rooms[k].type

\* 595-601: existing_types.get(rt, 0)
existing_count(i, rt) ==
  Cardinality({k \in 1..Len(i.existing_rooms) : i.existing_rooms[k].type = rt})

Manhattan(p, q) == Abs(p[1] - q[1]) + Abs(p[2] - q[2])

MinOf(S) == CHOOSE m \in S : \A n \in S : m <= n

AdjacentToExisting(i, pos) ==
  \E d \in 1..4 :
    /\ InGrid(pos[1] + DIRS[d][1], pos[2] + DIRS[d][2])
    /\ <<pos[1] + DIRS[d][1], pos[2] + DIRS[d][2]>> \in all_existing(i)

\* 552-553
Check1(i) ==
  IF i.max_paths = 0
  THEN <<Hint(1, "max_paths=0 but GENERATOR rooms require PATH neighbors")>>
  ELSE <<>>

\* 556-565: total_min > max_rooms_estimate * 0.7 with max_rooms_estimate = 78
Check2(i) ==
  LET required_rooms == i.min_spymasters + i.min_corruption_chambers
      total_min == required_rooms + required_rooms
  IN  IF i.snake_mode /\ 10 * total_min > 7 * 78
      THEN <<Hint(2, "High room requirements with snake_mode=True may be hard to satisfy")>>
      ELSE <<>>

\* 568-569
Check3(i) ==
  IF i.max_endpoints < 2
  THEN <<Hint(3, "max_endpoints is very restrictive")>>
  ELSE <<>>

\* 572-573
Check4(i) ==
  IF ~InGrid(i.architect_pos[1], i.architect_pos[2])
  THEN <<Hint(4, "Architect position is outside the grid")>>
  ELSE <<>>

\* 576-592
Check5(i) ==
  IF ~AdjacentToExisting(i, i.architect_pos) /\ all_existing(i) /= {}
  THEN LET min_dist == MinOf({Manhattan(i.architect_pos, q) : q \in all_existing(i)})
           paths_needed == min_dist - 1
       IN  IF paths_needed > i.max_paths
           THEN <<Hint(5, "Architect is too far from the nearest room for max_paths")>>
           ELSE IF paths_needed > 0
           THEN <<Hint(5, "Architect needs paths to connect to the nearest room")>>
           ELSE <<>>
  ELSE <<>>

\* 603-619: only with lock_existing
Check6(i) ==
  LET spymasters_needed == i.min_spymasters - existing_count(i, "SPYMASTER")
      corruption_needed ==
        i.min_corruption_chambers - existing_count(i, "CORRUPTION_CHAMBER")
      empty_cells == GRID_SIZE * GRID_SIZE - Cardinality(all_existing(i)) - 3
      rooms_to_add == Max(0, spymasters_needed) + Max(0, corruption_needed)
      total_to_add == rooms_to_add + rooms_to_add
  IN  IF /\ i.lock_existing
         /\ (spymasters_needed > 0 \/ corruption_needed > 0)
         /\ total_to_add > empty_cells
      THEN <<Hint(6, "Need to add rooms but only few empty cells available")>>
      ELSE <<>>

\* 622-623
Check7(i) ==
  IF existing_count(i, "SACRIFICIAL_CHAMBER") > 1
  THEN <<Hint(7, "Multiple SACRIFICIAL_CHAMBER rooms in existing")>>
  ELSE <<>>

\* 626-634: every room type but EMPTY and PATH is in NO_SELF_ADJACENCY
Check8(i) ==
  Flatten([k \in 1..Len(i.existing_rooms) |->
    LET r == i.existing_rooms[k]
        here == <<r.x, r.y>>
    IN  Flatten([d \in 1..4 |->
          LET there == <<r.x + DIRS[d][1], r.y + DIRS[d][2]>>
          IN  IF /\ existing_type_at(i, here) = r.type
                 /\ \A m \in 1..(k-1) :
                      <<i.existing_rooms[m].x, i.existing_rooms[m].y>> /= here
                 /\ there \in existing_positions(i)
                 /\ existing_type_at(i, there) = existing_type_at(i, here)
                 /\ existing_type_at(i, here) \notin {"EMPTY", "PATH"}
              THEN <<Hint(8, "Self-adjacency")>>
              ELSE <<>>])])

\* 637-643
Check9(i) ==
  IF i.lock_existing
  THEN (IF existing_count(i, "SPYMASTER") < i.min_spymasters
        THEN <<Hint(9, "Existing rooms have too few Spymasters")>> ELSE <<>>)
       \o
       (IF existing_count(i, "CORRUPTION_CHAMBER") < i.min_corruption_chambers
        THEN <<Hint(9, "Existing rooms have too few Corruption Chambers")>>
        ELSE <<>>)
  ELSE <<>>

\* 646-656
Check10(i) ==
  IF all_existing(i) /= {} /\ i.lock_existing /\ ~AdjacentToExisting(i, FOYER_POS)
  THEN <<Hint(10, "No existing room adjacent to Foyer")>>
  ELSE <<>>

\* 537-657
diagnose_infeasibility(i) ==
  Check1(i) \o Check2(i) \o Check3(i) \o Check4(i) \o Check5(i) \o Check6(i)
  \o Check7(i) \o Check8(i) \o Check9(i) \o Check10(i)

\* 717-727 and 944-967: the foyer and the architect are PATH cells, so the
\* model has a solution only if the Spymasters and Corruption Chambers asked
\* for fit in the other cells
Fits(i) ==
  i.min_spymasters + i.min_corruption_chambers <= GRID_SIZE * GRID_SIZE - 2

\* the requests of the runs looked at
ExistingChoices ==
  { <<>>,
    <<[type |-> "SPYMASTER", x |-> 5, y |-> 2],
      [type |-> "SPYMASTER", x |-> 5, y |-> 3]>> }

Inputs ==
  [architect_pos : {<<5, 5>>},
   min_spymasters : {0, 8, 99},
   min_corruption_chambers : {6},
   max_paths : {0, 4},
   snake_mode : BOOLEAN,
   max_endpoints : {2},
   existing_rooms : ExistingChoices,
   existing_paths : {<<>>},
   lock_existing : BOOLEAN,
   junction_penalty : {0, 10},
   empty_penalty : {0},
   lazy_spy_cmd : BOOLEAN]

\* 1556-1612: a penalty term is part of the objective, in snake mode for
\* junctions (junction_penalty > 0), in any mode for empty cells
Penalised(i) ==
  \/ i.snake_mode /\ i.junction_penalty > 0
  \/ i.empty_penalty > 0

\* 1552: total_value = NewIntVar(0, 100000)
Scores == 0..MaxObjective

\* 443-451
NewCallback ==
  [solution_count |-> 0, best_score |-> 0 - 1, best_solution |-> NoSolution,
   rejected_count |-> 0]

\* rooms, paths and edges of a layout the solver found
Rooms(layout) == <<[layout |-> layout]>>

\* 285-376, applied to the rooms and edges of a layout: <<is_valid, violation>>
validate_spy_cmd_constraint(layout) ==
  IF solver.found[layout].spy_after_cmd
  THEN <<FALSE, <<layout>>>>
  ELSE <<TRUE, <<>>>>

\* 479-532: the score reported is self.best_score as it is when the
\* solution is extracted
_extract_solution(count, layout) ==
  [kind |-> "best", score |-> callback.best_score, solution_count |-> count,
   layout |-> layout]

\* server_prod.py 153-157: on_solution puts without blocking
put_nowait(q, x) == IF Len(q) < SOLUTION_QUEUE_MAXSIZE THEN Append(q, x) ELSE q

\* a callback that records the score of a rejected layout as the best
on_solution_callback_advance(w, score, spy_after_cmd) ==
  LET layout == Len(solver.found) + 1
      count == callback.solution_count + 1
      solution == _extract_solution(count, layout)
  IN
  /\ proc[w] = "alive"
  /\ solver.status = "SEARCH"
  /\ Fits(input_data)
  /\ IF Penalised(input_data) \/ solver.found = <<>>
     THEN TRUE
     ELSE score > solver.found[Len(solver.found)].score
  /\ solver' = [solver EXCEPT !.found =
                  Append(@, [score |-> score, spy_after_cmd |-> spy_after_cmd])]
  /\ IF score > callback.best_score
     THEN IF input_data.lazy_spy_cmd /\ spy_after_cmd
          THEN /\ callback' = [callback EXCEPT !.solution_count = count,
                                               !.best_score = score,
                                               !.rejected_count = @ + 1]
               /\ UNCHANGED solution_queue
          ELSE /\ callback' = [callback EXCEPT !.solution_count = count,
                                               !.best_score = score,
                                               !.best_solution = solution]
               /\ solution_queue' =
                    [solution_queue EXCEPT ![w] = put_nowait(@, solution)]
     ELSE /\ callback' = [callback EXCEPT !.solution_count = count]
          /\ UNCHANGED solution_queue
  /\ UNCHANGED <<now, state_lock, sharedVars, next_id, req, wk, proc, emitted,
                 result_queue, input_data, result, modelVars>>

\* 453-477: the solver found a layout whose total_value is `score`.  The
\* solver maximizes final_score = total_value - penalties (1614-1615): each
\* layout it reports improves final_score, which is total_value when no
\* penalty applies; with a penalty the total_value of a later layout may be
\* below that of an earlier one.
on_solution_callback(w, score, spy_after_cmd) ==
  LET layout == Len(solver.found) + 1
      count == callback.solution_count + 1
      solution == _extract_solution(count, layout)
  IN
  /\ proc[w] = "alive"
  /\ solver.status = "SEARCH"
  /\ Fits(input_data)
  /\ IF Penalised(input_data) \/ solver.found = <<>>
     THEN TRUE
     ELSE score > solver.found[Len(solver.found)].score
  /\ solver' = [solver EXCEPT !.found =
                  Append(@, [score |-> score, spy_after_cmd |-> spy_after_cmd])]
  /\ IF score > callback.best_score
     THEN IF input_data.lazy_spy_cmd /\ spy_after_cmd
          THEN /\ callback' = [callback EXCEPT !.solution_count = count,
                                               !.rejected_count = @ + 1]
               /\ UNCHANGED solution_queue
          ELSE /\ callback' = [callback EXCEPT !.solution_count = count,
                                               !.best_score = score,
                                               !.best_solution = solution]
               /\ solution_queue' =
                    [solution_queue EXCEPT ![w] = put_nowait(@, solution)]
     ELSE /\ callback' = [callback EXCEPT !.solution_count = count]
          /\ UNCHANGED solution_queue
  /\ UNCHANGED <<now, state_lock, sharedVars, next_id, req, wk, proc, emitted,
                 result_queue, input_data, result, modelVars>>

\* 1669: solver.Solve returns; with a solution found the status is OPTIMAL
\* or FEASIBLE, without one INFEASIBLE, UNKNOWN or MODEL_INVALID
Solve(w, status) ==
  /\ proc[w] = "alive"
  /\ solver.status = "SEARCH"
  /\ IF solver.found /= <<>>
     THEN status \in {"OPTIMAL", "FEASIBLE"}
     ELSE status \in {"INFEASIBLE", "UNKNOWN", "MODEL_INVALID"}
  /\ solver' = [solver EXCEPT !.status = status]
  /\ UNCHANGED <<serverVars, input_data, callback, result, modelVars>>

\* 1683-1733: the validated solution of the callback
LazyExtraction ==
  LET validated == callback.best_solution
      final == validate_spy_cmd_constraint(validated.layout)
  IN  [success |-> TRUE,
       optimal |-> (solver.status = "OPTIMAL"),
       score |-> validated.score,
       rooms |-> Rooms(validated.layout),
       paths |-> Rooms(validated.layout),
       edges |-> Rooms(validated.layout),
       stats |-> [status |-> solver.status,
                  lazy_rejected |-> callback.rejected_count,
                  spy_cmd_valid |-> final[1],
                  spy_cmd_violation |-> final[2]],
       error |-> <<>>]

\* an extraction that reports every solution as optimal
StandardExtraction_optimal ==
  LET layout == Len(solver.found)
      final == validate_spy_cmd_constraint(layout)
  IN  [success |-> TRUE,
       optimal |-> TRUE,
       score |-> solver.found[layout].score,
       rooms |-> Rooms(layout),
       paths |-> Rooms(layout),
       edges |-> Rooms(layout),
       stats |-> [status |-> solver.status,
                  spy_cmd_valid |-> final[1],
                  spy_cmd_violation |-> final[2]],
       error |-> <<>>]

\* 1735-1813: the values of the solver, that is of the last layout it found
StandardExtraction ==
  LET layout == Len(solver.found)
      final == validate_spy_cmd_constraint(layout)
  IN  [success |-> TRUE,
       optimal |-> (solver.status = "OPTIMAL"),
       score |-> solver.found[layout].score,
       rooms |-> Rooms(layout),
       paths |-> Rooms(layout),
       edges |-> Rooms(layout),
       stats |-> [status |-> solver.status,
                  spy_cmd_valid |-> final[1],
                  spy_cmd_violation |-> final[2]],
       error |-> <<>>]

\* 1816-1832: the parts of the error message
error_parts(hints) ==
  <<Hint(0, "Solver status: " \o solver.status)>>
  \o (IF solver.status = "INFEASIBLE"
      THEN <<Hint(0, "No valid temple layout exists with these constraints.")>>
           \o (IF hints /= <<>>
               THEN <<Hint(0, "Possible issues:")>> \o hints
               ELSE <<Hint(0, "Try: reducing min_spymasters/min_corruption_chambers, increasing max_paths, or disabling snake_mode.")>>)
      ELSE IF solver.status = "UNKNOWN"
      THEN <<Hint(0, "Solver timed out before finding a solution.")>>
           \o (IF hints /= <<>>
               THEN <<Hint(0, "Potential constraint issues:")>> \o hints
               ELSE <<>>)
           \o <<Hint(0, "Try: increasing max_time_seconds, relaxing min_spymasters/min_corruption_chambers, or increasing max_paths.")>>
      ELSE <<>>)

\* 1814-1847
FailureOutput(hints) ==
  [success |-> FALSE, optimal |-> FALSE, score |-> 0,
   rooms |-> <<>>, paths |-> <<>>, edges |-> <<>>,
   stats |-> [status |-> solver.status, diagnostic_hints |-> hints],
   error |-> error_parts(hints)]

\* 676 and 1680-1847: what solve_temple returns
SolverOutput ==
  LET diagnostic_hints == diagnose_infeasibility(input_data) IN
  IF solver.status \in {"OPTIMAL", "FEASIBLE"}
  THEN IF input_data.lazy_spy_cmd /\ callback.best_solution /= NoSolution
       THEN LazyExtraction
       ELSE StandardExtraction
  ELSE FailureOutput(diagnostic_hints)

\* 1680-1847 and server_prod.py 160-187: solve_temple returns and
\* solver_subprocess puts the output on result_queue
solve_temple(w) ==
  /\ proc[w] = "alive"
  /\ solver.status /= "SEARCH"
  /\ result = NoResult
  /\ result' = SolverOutput
  /\ result_queue' = [result_queue EXCEPT ![w] =
       <<[status |-> "complete", result |-> SolverOutput, error |-> ""]>>]
  /\ UNCHANGED <<now, state_lock, sharedVars, next_id, req, wk, proc, emitted,
                 solution_queue, input_data, callback, solver, modelVars>>

\* A job is solving: the worker has stored the process reference and polls
\* (server_prod.py 232-240), the subprocess has entered solver.Solve.
SolveInit ==
  /\ now = 0
  /\ state_lock = "free"
  /\ jobs = (1 :> [NewJob EXCEPT !.status = "solving", !.started_at = 0,
                                 !.process = 1])
  /\ job_order = <<1>>
  /\ job_queue = <<>>
  /\ ip_last_solve = <<[ip |-> "ipA", at |-> 0]>>
  /\ next_id = 1
  /\ req = [t \in RequestThreads |-> IdleReq]
  /\ wk = [w \in Workers |-> [pc |-> "poll", job_id |-> 1, aborted |-> FALSE]]
  /\ proc = [w \in Workers |-> "alive"]
  /\ emitted = [w \in Workers |-> 0]
  /\ solution_queue = [w \in Workers |-> <<>>]
  /\ result_queue = [w \in Workers |-> <<>>]
  /\ input_data \in Inputs
  /\ callback = NewCallback
  /\ solver = [status |-> "SEARCH", found |-> <<>>]
  /\ result = NoResult
  /\ room_type = <<>>
  /\ in_temple = <<>>
  /\ edge_var = <<>>
  /\ chain_idx = <<>>
  /\ reach_sat = "unchecked"
  /\ model_status = "none"

SolveNext ==
  \/ \E w \in Workers, score \in Scores, bad \in BOOLEAN :
       /\ Len(solver.found) < MaxLayouts
       /\ on_solution_callback(w, score, bad)
  \/ \E w \in Workers,
        status \in {"OPTIMAL", "FEASIBLE", "INFEASIBLE", "UNKNOWN",
                    "MODEL_INVALID"} : Solve(w, status)
  \/ \E w \in Workers : solve_temple(w)
  \/ \E w \in Workers : proc_exit(w)
  \/ \E w \in Workers : worker_poll(w)
  \/ \E w \in Workers : worker_drain(w)
  \/ \E w \in Workers : worker_final(w)
  \/ \E w \in Workers : worker_cleanup(w)

SolveSpec == SolveInit /\ [][SolveNext]_vars

\* The same run with a solver that keeps improving: every layout it reports
\* is valid and better than the best so far, up to MaxStream layouts, so that
\* the subprocess can get ahead of the polling worker by more than the
\* capacity of solution_queue (server_prod.py 222).
ChannelNext ==
  \/ \E w \in Workers :
       /\ Len(solver.found) < MaxStream
       /\ on_solution_callback(w, callback.best_score + 1, FALSE)
  \/ \E w \in Workers, status \in {"OPTIMAL", "FEASIBLE"} : Solve(w, status)
  \/ \E w \in Workers : solve_temple(w)
  \/ \E w \in Workers : proc_exit(w)
  \/ \E w \in Workers : worker_poll(w)
  \/ \E w \in Workers : worker_drain(w)
  \/ \E w \in Workers : worker_final(w)
  \/ \E w \in Workers : worker_cleanup(w)

ChannelSpec == SolveInit /\ [][ChannelNext]_vars

\* ================================================================ CP model
\* The constraint model solve_temple builds (temple_solver.py 683-1513), on
\* the part of the grid around the foyer that the bounds keep; the cells
\* outside it are EMPTY and out of the temple.  tier is left out: every
\* in-temple cell may take tier 1.  Without chains, with snake_mode off and
\* without existing rooms the sections 983-1198 and 1476-1513 add no
\* constraint; the SPY-CMD bans (1336-1459) constrain only layouts with a
\* SPYMASTER and a COMMANDER.

\* 32-49
ROOM_TYPES ==
  <<"EMPTY", "PATH", "GARRISON", "SPYMASTER", "COMMANDER", "ARMOURY",
    "ALCHEMY_LAB", "SMITHY", "CORRUPTION_CHAMBER", "SACRIFICIAL_CHAMBER",
    "THAUMATURGE", "GENERATOR", "GOLEM_WORKS", "FLESH_SURGEON", "SYNTHFLESH",
    "LEGION_BARRACKS">>

RoomTypeSet == SeqRange(ROOM_TYPES)

\* 79-83
NO_SELF_ADJACENCY ==
  {"GARRISON", "SPYMASTER", "COMMANDER", "ARMOURY", "ALCHEMY_LAB", "SMITHY",
   "CORRUPTION_CHAMBER", "SACRIFICIAL_CHAMBER", "THAUMATURGE", "GENERATOR",
   "GOLEM_WORKS", "FLESH_SURGEON", "SYNTHFLESH", "LEGION_BARRACKS"}

\* 94-109
SULOZOR_ADJACENCY(t) ==
  CASE t = "GARRISON" -> {"COMMANDER", "ARMOURY", "SPYMASTER", "SYNTHFLESH"}
    [] t = "LEGION_BARRACKS" -> {"COMMANDER", "ARMOURY", "SPYMASTER"}
    [] t = "COMMANDER" -> {"GARRISON", "LEGION_BARRACKS"}
    [] t = "SPYMASTER" -> {"GARRISON", "LEGION_BARRACKS"}
    [] t = "ARMOURY" -> {"GARRISON", "LEGION_BARRACKS", "SMITHY", "ALCHEMY_LAB"}
    [] t = "SMITHY" -> {"ARMOURY", "GOLEM_WORKS"}
    [] t = "GOLEM_WORKS" -> {"SMITHY"}
    [] t = "GENERATOR" -> {"THAUMATURGE", "SACRIFICIAL_CHAMBER"}
    [] t = "SYNTHFLESH" -> {"GARRISON", "FLESH_SURGEON"}
    [] t = "FLESH_SURGEON" -> {"SYNTHFLESH"}
    [] t = "ALCHEMY_LAB" -> {"ARMOURY", "THAUMATURGE"}
    [] t = "THAUMATURGE" -> {"ALCHEMY_LAB", "SACRIFICIAL_CHAMBER",
                             "CORRUPTION_CHAMBER", "GENERATOR"}
    [] t = "CORRUPTION_CHAMBER" -> {"THAUMATURGE", "SACRIFICIAL_CHAMBER"}
    [] t = "SACRIFICIAL_CHAMBER" -> {"THAUMATURGE", "CORRUPTION_CHAMBER",
                                     "GENERATOR"}
    [] OTHER -> {}

\* 112-122: _build_valid_pairs adds both directions
VALID_ADJACENCY_PAIRS ==
  {p \in RoomTypeSet \X RoomTypeSet :
     p[2] \in SULOZOR_ADJACENCY(p[1]) \/ p[1] \in SULOZOR_ADJACENCY(p[2])}

\* 124-130
can_be_adjacent(type_a, type_b) ==
  IF type_a = "PATH" \/ type_b = "PATH" THEN TRUE
  ELSE IF type_a = "EMPTY" \/ type_b = "EMPTY" THEN TRUE
  ELSE <<type_a, type_b>> \in VALID_ADJACENCY_PAIRS

\* 143-150
CHAIN_BANS ==
  <<<<"ARMOURY", "GARRISON", "ARMOURY">>,
    <<"ALCHEMY_LAB", "ARMOURY", "ALCHEMY_LAB">>,
    <<"THAUMATURGE", "CORRUPTION_CHAMBER", "THAUMATURGE">>,
    <<"GOLEM_WORKS", "SMITHY", "GOLEM_WORKS">>,
    <<"SPYMASTER", "LEGION_BARRACKS", "SPYMASTER">>,
    <<"LEGION_BARRACKS", "SPYMASTER", "LEGION_BARRACKS">>>>

\* 157-160: <<room type, adjacent type, max count>>
ADJACENCY_LIMITS ==
  {<<"ARMOURY", "SMITHY", 1>>, <<"ALCHEMY_LAB", "THAUMATURGE", 2>>}

\* 167-169
REQUIRES_PATH_NEIGHBOR == {"GENERATOR"}

\* 202
UNIQUE_ROOMS == {"SACRIFICIAL_CHAMBER"}

\* the room types the assignments looked at give to a cell
CellTypes == {"EMPTY", "PATH", "ARMOURY", "SMITHY", "GOLEM_WORKS"}

\* 688-690: the cells of the grid that are kept: the cells around the foyer,
Window ==
  {c \in (1..GRID_SIZE) \X (1..GRID_SIZE) :
     /\ FOYER_POS[1] - GridHalfWidth <= c[1]
     /\ c[1] <= FOYER_POS[1] + GridHalfWidth
     /\ c[2] <= GridHeight}

\* the corner (1,1) of the grid with its two neighbours, and the cell of the
\* first row that joins them to the cells around the foyer
CornerArm == {<<1, 1>>, <<2, 1>>, <<1, 2>>, <<3, 1>>}

\* every other cell of the grid is EMPTY and outside the temple
Cells == Window \cup CornerArm

\* 274-281: the neighbours of a cell in the 9x9 grid
grid_neighbors(pos) ==
  {c \in {<<pos[1] + DIRS[d][1], pos[2] + DIRS[d][2]>> : d \in 1..4} :
     InGrid(c[1], c[2])}

\* 274-281, the neighbours among the cells kept
get_neighbors(pos) == grid_neighbors(pos) \cap Cells

\* the order of Python tuples
Less(a, b) == a[1] < b[1] \/ (a[1] = b[1] /\ a[2] < b[2])

\* 790-808: one edge variable per adjacent pair, from the smaller cell
all_edges == {p \in Cells \X Cells : p[2] \in get_neighbors(p[1]) /\ Less(p[1], p[2])}

\* 805-806: connected[pos][neighbor] and connected[neighbor][pos]
connected(e, a, b) == IF Less(a, b) THEN e[<<a, b>>] ELSE e[<<b, a>>]

\* 774-783
compatible_type_pairs ==
  {p \in RoomTypeSet \X RoomTypeSet :
     /\ p[1] /= "EMPTY" /\ p[2] /= "EMPTY"
     /\ \/ p[1] = "PATH" \/ p[2] = "PATH"
        \/ can_be_adjacent(p[1], p[2])}

\* a table that lets an edge between compatible in-temple cells be off
connection_tuples_off(type_a, type_b) ==
  {<<FALSE, FALSE>>, <<TRUE, FALSE>>,
   <<TRUE, <<type_a, type_b>> \in compatible_type_pairs>>}

\* 821-828: the (both_in, edge) entries of the table for a pair of types
connection_tuples(type_a, type_b) ==
  {<<FALSE, FALSE>>, <<TRUE, <<type_a, type_b>> \in compatible_type_pairs>>}

\* 717-725
FixedPositions ==
  /\ in_temple[FOYER_POS] /\ room_type[FOYER_POS] = "PATH"
  /\ in_temple[input_data.architect_pos]
  /\ room_type[input_data.architect_pos] = "PATH"

\* 733-741
BasicConstraints ==
  \A pos \in Cells :
    /\ ~in_temple[pos] => room_type[pos] = "EMPTY"
    /\ in_temple[pos] => room_type[pos] /= "EMPTY"

\* 809-833: the values the constraints of a pair leave to its edge variable
EdgeValues(p) ==
  {edge \in BOOLEAN :
     \E both_in_temple \in BOOLEAN :
       /\ both_in_temple => (in_temple[p[1]] /\ in_temple[p[2]])
       /\ ~both_in_temple => (~in_temple[p[1]] \/ ~in_temple[p[2]])
       /\ ~both_in_temple => ~edge
       /\ <<both_in_temple, edge>>
            \in connection_tuples(room_type[p[1]], room_type[p[2]])}

\* 790-833: the auto-connection constraints, one set per adjacent pair
AutoConnection(e) == \A p \in all_edges : e[p] \in EdgeValues(p)

\* the assignments of the edge variables of E that satisfy AutoConnection
RECURSIVE EdgeAssignments(_)
EdgeAssignments(E) ==
  IF E = {} THEN {<<>>}
  ELSE LET p == CHOOSE q \in E : TRUE
       IN  {(p :> edge) @@ f : edge \in EdgeValues(p),
                               f \in EdgeAssignments(E \ {p})}

\* 843: GRID_SIZE * GRID_SIZE, the number of cells
MAX_DIST == Cardinality(Cells)

\* reachability constraints that count a closer neighbour without an edge
ReachabilityOn_any_neighbour(e, reach_dist, done, cells) ==
  \A pos \in cells \ {FOYER_POS} :
    /\ ~in_temple[pos] => reach_dist[pos] = MAX_DIST
    /\ \A neighbor \in get_neighbors(pos) \cap done :
         connected(e, pos, neighbor)
           => reach_dist[pos] <= reach_dist[neighbor] + 1
    /\ (get_neighbors(pos) /= {} /\ in_temple[pos])
       => \E neighbor \in get_neighbors(pos) :
            neighbor \in done => reach_dist[neighbor] < reach_dist[pos]

\* 851-894: the constraints of the cells in `cells`, as far as the
\* reach_dist of the cells in `done` decide them: a neighbour that has no
\* value yet may still get a closer one
ReachabilityOn(e, reach_dist, done, cells) ==
  \A pos \in cells \ {FOYER_POS} :
    /\ ~in_temple[pos] => reach_dist[pos] = MAX_DIST
    /\ \A neighbor \in get_neighbors(pos) \cap done :
         connected(e, pos, neighbor)
           => reach_dist[pos] <= reach_dist[neighbor] + 1
    /\ (get_neighbors(pos) /= {} /\ in_temple[pos])
       => \E neighbor \in get_neighbors(pos) :
            /\ connected(e, pos, neighbor)
            /\ neighbor \in done => reach_dist[neighbor] < reach_dist[pos]

\* 849-894: all the reachability constraints
Reachability(e, reach_dist) ==
  /\ reach_dist[FOYER_POS] = 0
  /\ ReachabilityOn(e, reach_dist, Cells, Cells)

\* 845-846: is there a reach_dist in 0..MAX_DIST for every cell that
\* satisfies the constraints; the cells get their value one after the other,
\* a cell with an active edge to a cell done first, and a value that breaks a
\* constraint of the cell or of a neighbour done is given up
RECURSIVE ReachSearch(_, _, _)
ReachSearch(e, reach_dist, done) ==
  IF done = Cells THEN Reachability(e, reach_dist)
  ELSE LET joined == {c \in Cells \ done :
                        \E n \in get_neighbors(c) \cap done : connected(e, c, n)}
           pos == IF joined /= {}
                  THEN CHOOSE c \in joined : TRUE
                  ELSE CHOOSE c \in Cells \ done : get_neighbors(c) \cap done /= {}
       IN  \E d \in 0..MAX_DIST :
             /\ ReachabilityOn(e, [reach_dist EXCEPT ![pos] = d],
                               done \cup {pos},
                               {pos} \cup (get_neighbors(pos) \cap done))
             /\ ReachSearch(e, [reach_dist EXCEPT ![pos] = d],
                            done \cup {pos})

ReachSat(e) == ReachSearch(e, [c \in Cells |-> 0], {FOYER_POS})

\* 903-927
NoSelfAdjacency ==
  \A p \in all_edges : \A t \in NO_SELF_ADJACENCY :
    ~(room_type[p[1]] = t /\ room_type[p[2]] = t)

\* 934-938
ArchitectLimit ==
  Cardinality({n \in get_neighbors(input_data.architect_pos) : in_temple[n]}) = 1

\* 944-980
MinimumRequirements ==
  /\ Cardinality({c \in Cells : room_type[c] = "SPYMASTER"})
       >= input_data.min_spymasters
  /\ Cardinality({c \in Cells : room_type[c] = "CORRUPTION_CHAMBER"})
       >= input_data.min_corruption_chambers
  /\ Cardinality({c \in Cells \ {FOYER_POS, input_data.architect_pos} :
                    room_type[c] = "PATH"}) <= input_data.max_paths

\* 1206-1265: is_banned_pattern and is_banned_rev are implied to be false
\* only when they are true themselves (OnlyEnforceIf), and are set to 0
ChainBans(e) ==
  \A pos \in Cells : \A neighbor_a, neighbor_c \in get_neighbors(pos) :
    Less(neighbor_a, neighbor_c) =>
      \A k \in 1..Len(CHAIN_BANS) :
        LET chain_a == CHAIN_BANS[k][1]
            chain_b == CHAIN_BANS[k][2]
            chain_c == CHAIN_BANS[k][3]
            conn_a == connected(e, pos, neighbor_a)
            conn_c == connected(e, pos, neighbor_c)
            pos_is_b == room_type[pos] = chain_b
        IN  /\ \E is_banned_pattern \in BOOLEAN :
                 /\ is_banned_pattern
                    => /\ pos_is_b
                       /\ room_type[neighbor_a] = chain_a
                       /\ room_type[neighbor_c] = chain_c
                       /\ conn_a /\ conn_c
                 /\ is_banned_pattern = FALSE
            /\ chain_a /= chain_c
               => \E is_banned_rev \in BOOLEAN :
                    /\ is_banned_rev
                       => /\ pos_is_b
                          /\ room_type[neighbor_a] = chain_c
                          /\ room_type[neighbor_c] = chain_a
                          /\ conn_a /\ conn_c
                    /\ is_banned_rev = FALSE

\* 1272-1302
AdjacencyLimits ==
  \A lim \in ADJACENCY_LIMITS : \A pos \in Cells :
    room_type[pos] = lim[1]
      => Cardinality({n \in get_neighbors(pos) : room_type[n] = lim[2]}) <= lim[3]

\* 1308-1333
GeneratorPathNeighbor ==
  \A t \in REQUIRES_PATH_NEIGHBOR : \A pos \in Cells :
    (room_type[pos] = t /\ get_neighbors(pos) /= {})
      => \E n \in get_neighbors(pos) : room_type[n] = "PATH"

\* 1463-1473
UniqueRooms ==
  \A t \in UNIQUE_ROOMS : Cardinality({c \in Cells : room_type[c] = t}) <= 1

\* 994-1000: the cells that have a chain_idx variable
chain_cells == Cells \ {FOYER_POS, input_data.architect_pos}

\* 1000 and 1651: the values of the chain_idx variables, 0..num_chains; no
\* variables without chains
ChainAssignments ==
  IF input_data.chains = <<>> THEN {<<>>}
  ELSE [chain_cells -> 0..Len(input_data.chains)]

\* 1002-1015: connected cells are in the same chain, except at the foyer
ChainSameBranch(e, idx) ==
  \A p \in all_edges :
    (p[1] \in chain_cells /\ p[2] \in chain_cells)
      => ((in_temple[p[1]] /\ in_temple[p[2]] /\ e[p])
            => idx[p[1]] = idx[p[2]])

\* 1027-1035: all types when roomTypes is empty
allowed_types(chain) ==
  IF chain.roomTypes = {} THEN RoomTypeSet
  ELSE chain.roomTypes \cap RoomTypeSet

\* 1039-1067: a cell in the temple and in chain c_idx has an allowed type
ChainTypes(idx) ==
  \A c \in 1..Len(input_data.chains) : \A pos \in chain_cells :
    LET in_chain == idx[pos] = c - 1
        type_allowed ==
          room_type[pos] \in allowed_types(input_data.chains[c]) \cup {"EMPTY"}
    IN  in_temple[pos] => (in_chain => type_allowed)

\* 1069-1094: min and max of the rooms of a type in a chain
ChainCounts(idx) ==
  \A c \in 1..Len(input_data.chains) :
    \A counts \in input_data.chains[c].roomCounts :
      counts.type \in RoomTypeSet =>
        LET type_in_chain ==
              Cardinality({pos \in chain_cells :
                             idx[pos] = c - 1 /\ room_type[pos] = counts.type})
        IN  /\ counts.min > 0 => type_in_chain >= counts.min
            /\ counts.max < 999 => type_in_chain <= counts.max

\* 1097-1156: a room of the starting type in the chain is next to the foyer
\* or next to a PATH that is next to the foyer
ChainStart(idx) ==
  \A c \in 1..Len(input_data.chains) :
    LET starting_room == input_data.chains[c].startingRoom
        foyer_neighbors == get_neighbors(FOYER_POS)
        is_valid_start(pos) ==
          /\ idx[pos] = c - 1
          /\ room_type[pos] = starting_room
          /\ \/ pos \in foyer_neighbors
             \/ \E neighbor \in get_neighbors(pos) \cap foyer_neighbors :
                  neighbor /= FOYER_POS /\ room_type[neighbor] = "PATH"
    IN  starting_room \in RoomTypeSet
          => \E pos \in chain_cells : is_valid_start(pos)

\* 988-1156
ChainConfiguration(e, idx) ==
  input_data.chains /= <<>> =>
    /\ ChainSameBranch(e, idx)
    /\ ChainTypes(idx)
    /\ ChainCounts(idx)
    /\ ChainStart(idx)

\* 1179-1188: the number of active edges of a cell
num_connections(e, pos) ==
  Cardinality({neighbor \in get_neighbors(pos) : connected(e, pos, neighbor)})

\* 1169-1190 and 1565-1579: the hard limit on the connections of a cell, in
\* snake mode only and not for the foyer and the architect
SnakeLimit(e) ==
  ( /\ input_data.snake_mode
    /\ input_data.junction_penalty > 0 \/ input_data.max_neighbors < 4
    /\ input_data.max_neighbors < 4 )
  => \A pos \in Cells \ {FOYER_POS, input_data.architect_pos} :
       in_temple[pos] => num_connections(e, pos) <= input_data.max_neighbors

\* 1351-1384: a Spymaster and a Commander are not on adjacent cells
SpyCmdDirect ==
  \A p \in all_edges :
    /\ ~(room_type[p[1]] = "SPYMASTER" /\ room_type[p[2]] = "COMMANDER")
    /\ ~(room_type[p[1]] = "COMMANDER" /\ room_type[p[2]] = "SPYMASTER")

\* 1386-1457: a cell between a Spymaster and a Commander.  For a cell with 3
\* or 4 neighbours in the grid the pattern implies 3 or more connections;
\* for a cell with 2 neighbours pattern1 and pattern2 imply the pattern
\* (OnlyEnforceIf) and are set to 0.
SpyCmdLinear(e) ==
  \A pos \in Cells : \A n1, n2 \in get_neighbors(pos) :
    Less(n1, n2) =>
      LET n1_is_spy == room_type[n1] = "SPYMASTER"
          n1_is_cmd == room_type[n1] = "COMMANDER"
          n2_is_spy == room_type[n2] = "SPYMASTER"
          n2_is_cmd == room_type[n2] = "COMMANDER"
          conn_n1 == connected(e, pos, n1)
          conn_n2 == connected(e, pos, n2)
      IN  IF Cardinality(grid_neighbors(pos)) < 3
          THEN /\ \E pattern1 \in BOOLEAN :
                    /\ pattern1 => (n1_is_spy /\ n2_is_cmd /\ conn_n1 /\ conn_n2)
                    /\ pattern1 = FALSE
               /\ \E pattern2 \in BOOLEAN :
                    /\ pattern2 => (n1_is_cmd /\ n2_is_spy /\ conn_n1 /\ conn_n2)
                    /\ pattern2 = FALSE
          ELSE LET spy_cmd_pattern == n1_is_spy /\ n2_is_cmd /\ conn_n1 /\ conn_n2
                   cmd_spy_pattern == n1_is_cmd /\ n2_is_spy /\ conn_n1 /\ conn_n2
                   is_between_spy_cmd == spy_cmd_pattern \/ cmd_spy_pattern
               IN  is_between_spy_cmd => num_connections(e, pos) >= 3

\* 1346-1457: the Spymaster-Commander constraints, left out with lazy_spy_cmd
SpyCmdBans(e) ==
  ~input_data.lazy_spy_cmd => (SpyCmdDirect /\ SpyCmdLinear(e))

\* the requests of the models looked at
ModelInputs ==
  [architect_pos : {<<4, 1>>, <<5, 2>>},
   min_spymasters : {0},
   min_corruption_chambers : {0},
   max_paths : {4},
   snake_mode : {FALSE},
   max_endpoints : {2},
   existing_rooms : {<<>>},
   existing_paths : {<<>>},
   lock_existing : {FALSE},
   junction_penalty : {10},
   max_neighbors : {4},
   chains : {<<>>},
   lazy_spy_cmd : {FALSE}]

\* An assignment of room_type and in_temple to the cells, the foyer and the
\* architect as 717-725 fix them, before the constraints are looked at.
ModelInit ==
  /\ now = 0
  /\ state_lock = "free"
  /\ jobs = <<>>
  /\ job_order = <<>>
  /\ job_queue = <<>>
  /\ ip_last_solve = <<>>
  /\ next_id = 0
  /\ req = [t \in RequestThreads |-> IdleReq]
  /\ wk = [w \in Workers |-> IdleWorker]
  /\ proc = [w \in Workers |-> "none"]
  /\ emitted = [w \in Workers |-> 0]
  /\ solution_queue = [w \in Workers |-> <<>>]
  /\ result_queue = [w \in Workers |-> <<>>]
  /\ input_data \in ModelInputs
  /\ callback = NoCallback
  /\ solver = NoSolver
  /\ result = NoResult
  /\ room_type \in {t @@ [c \in CornerArm |-> "EMPTY"] :
                      t \in [Window -> CellTypes]}
  /\ in_temple \in {t @@ [c \in CornerArm |-> FALSE] :
                      t \in [Window -> BOOLEAN]}
  /\ FixedPositions
  /\ edge_var = <<>>
  /\ chain_idx = <<>>
  /\ reach_sat = "unchecked"
  /\ model_status = "candidate"

\* 730-1513: the assignment, with values of the edge variables that satisfy
\* the auto-connection constraints, against the constraints of the model
CheckModel ==
  /\ model_status = "candidate"
  /\ \E e \in EdgeAssignments(all_edges) :
       /\ AutoConnection(e)
       /\ edge_var' = e
       /\ reach_sat' = IF ~BasicConstraints THEN "unchecked"
                       ELSE IF ReachSat(e) THEN "sat" ELSE "unsat"
       /\ \E idx \in ChainAssignments :
            /\ chain_idx' = idx
            /\ model_status' =
                 IF /\ FixedPositions
                    /\ BasicConstraints
                    /\ reach_sat' = "sat"
                    /\ ChainConfiguration(e, idx)
                    /\ NoSelfAdjacency
                    /\ ArchitectLimit
                    /\ MinimumRequirements
                    /\ SnakeLimit(e)
                    /\ ChainBans(e)
                    /\ AdjacencyLimits
                    /\ GeneratorPathNeighbor
                    /\ SpyCmdBans(e)
                    /\ UniqueRooms
                 THEN "accepted" ELSE "rejected"
  /\ UNCHANGED <<serverVars, solveVars, room_type, in_temple>>

\* 1735-1813: rooms, paths and edges of an accepted assignment
ExtractSolution ==
  /\ model_status = "accepted"
  /\ result = NoResult
  /\ result' =
       [success |-> TRUE,
        rooms |-> {c \in Cells \ {FOYER_POS, input_data.architect_pos} :
                     in_temple[c] /\ room_type[c] \notin {"PATH", "EMPTY"}},
        paths |-> {c \in Cells \ {FOYER_POS, input_data.architect_pos} :
                     in_temple[c] /\ room_type[c] = "PATH"},
        edges |-> {p \in all_edges : edge_var[p]}]
  /\ UNCHANGED <<serverVars, input_data, callback, solver, modelVars>>

ModelNext == CheckModel \/ ExtractSolution

ModelSpec == ModelInit /\ [][ModelNext]_vars

\* The requests and assignments of three more groups of models: cells up to
\* the corner (1,1) with Spymasters and Commanders, a limit on the
\* connections of a cell, and chains.  `free` are the cells that get a type
\* of `types`; the other cells are EMPTY, the foyer and the architect PATH.
CHAIN_A == [name |-> "A", roomTypes |-> {"SMITHY"}, roomCounts |-> {},
            startingRoom |-> ""]
CHAIN_B == [name |-> "B", roomTypes |-> {}, startingRoom |-> "SMITHY",
            roomCounts |-> {[type |-> "SMITHY", min |-> 1, max |-> 1]}]

LayoutGroups ==
  { [free |-> CornerArm \cup {<<4, 1>>},
     types |-> {"EMPTY", "PATH", "SPYMASTER", "COMMANDER"},
     inputs |-> [architect_pos : {<<5, 2>>},
                 min_spymasters : {0},
                 min_corruption_chambers : {0},
                 max_paths : {4},
                 snake_mode : {FALSE},
                 max_endpoints : {2},
                 existing_rooms : {<<>>},
                 existing_paths : {<<>>},
                 lock_existing : {FALSE},
                 junction_penalty : {10},
                 max_neighbors : {4},
                 chains : {<<>>},
                 lazy_spy_cmd : BOOLEAN]],
    [free |-> {<<4, 1>>, <<6, 1>>, <<5, 2>>, <<6, 2>>},
     types |-> {"EMPTY", "PATH", "ARMOURY"},
     inputs |-> [architect_pos : {<<4, 2>>},
                 min_spymasters : {0},
                 min_corruption_chambers : {0},
                 max_paths : {4},
                 snake_mode : BOOLEAN,
                 max_endpoints : {2},
                 existing_rooms : {<<>>},
                 existing_paths : {<<>>},
                 lock_existing : {FALSE},
                 junction_penalty : {0, 10},
                 max_neighbors : {2, 4},
                 chains : {<<>>},
                 lazy_spy_cmd : {FALSE}]],
    [free |-> {<<6, 1>>, <<5, 2>>, <<6, 2>>},
     types |-> {"EMPTY", "ARMOURY", "SMITHY"},
     inputs |-> [architect_pos : {<<4, 2>>},
                 min_spymasters : {0},
                 min_corruption_chambers : {0},
                 max_paths : {4},
                 snake_mode : {FALSE},
                 max_endpoints : {2},
                 existing_rooms : {<<>>},
                 existing_paths : {<<>>},
                 lock_existing : {FALSE},
                 junction_penalty : {10},
                 max_neighbors : {4},
                 chains : {<<CHAIN_A>>, <<CHAIN_B>>},
                 lazy_spy_cmd : {FALSE}]] }

\* An assignment of a group that satisfies 717-741: the foyer and the
\* architect are PATH cells of the temple, a cell is in the temple exactly
\* when its type is not EMPTY.
LayoutInit ==
  /\ now = 0
  /\ state_lock = "free"
  /\ jobs = <<>>
  /\ job_order = <<>>
  /\ job_queue = <<>>
  /\ ip_last_solve = <<>>
  /\ next_id = 0
  /\ req = [t \in RequestThreads |-> IdleReq]
  /\ wk = [w \in Workers |-> IdleWorker]
  /\ proc = [w \in Workers |-> "none"]
  /\ emitted = [w \in Workers |-> 0]
  /\ solution_queue = [w \in Workers |-> <<>>]
  /\ result_queue = [w \in Workers |-> <<>>]
  /\ callback = NoCallback
  /\ solver = NoSolver
  /\ result = NoResult
  /\ \E g \in LayoutGroups :
       /\ input_data \in g.inputs
       /\ room_type \in
            {t @@ [c \in Cells |->
                     IF c \in {FOYER_POS, input_data.architect_pos}
                     THEN "PATH" ELSE "EMPTY"] : t \in [g.free -> g.types]}
  /\ in_temple = [c \in Cells |-> room_type[c] /= "EMPTY"]
  /\ edge_var = <<>>
  /\ chain_idx = <<>>
  /\ reach_sat = "unchecked"
  /\ model_status = "candidate"

LayoutSpec == LayoutInit /\ [][ModelNext]_vars

\* ------------------------------------------- validate_spy_cmd_constraint
\* The validator (temple_solver.py 284-377) on the rooms and edges of a
\* layout: room_type gives the type of the rooms, edge_var the edges.

\* 296-305: graph[a]
graph(e, a) == {b \in get_neighbors(a) : connected(e, a, b)}

\* 325-333: the breadth-first distances from the foyer, of the cells joined
\* to it
RECURSIVE bfs_distances(_, _, _, _)
bfs_distances(e, distances, frontier, depth) ==
  LET next == {b \in Cells \ DOMAIN distances :
                 \E a \in frontier : b \in graph(e, a)}
  IN  IF next = {} THEN distances
      ELSE bfs_distances(e, [b \in next |-> depth + 1] @@ distances,
                         next, depth + 1)

foyer_distances(e) == bfs_distances(e, FOYER_POS :> 0, {FOYER_POS}, 0)

\* 347, 353: distances.get(pos, 0)
distance_of(distances, pos) ==
  IF pos \in DOMAIN distances THEN distances[pos] ELSE 0

\* 362-368
is_linear(e, path) ==
  \A k \in 2..Len(path) : Cardinality(graph(e, path[k])) <= 2

\* a search that goes towards the foyer
RECURSIVE cmd_search_towards(_, _, _)
cmd_search_towards(e, distances, level) ==
  LET steps == {s \in level \X Cells :
                  /\ s[2] \in graph(e, s[1][Len(s[1])])
                  /\ distance_of(distances, s[2])
                       < distance_of(distances, s[1][Len(s[1])])}
      found == {Append(s[1], s[2]) : s \in
                  {s \in steps : /\ room_type[s[2]] = "SPYMASTER"
                                 /\ is_linear(e, s[1])}}
      queue == {Append(s[1], s[2]) : s \in
                  {s \in steps : Cardinality(graph(e, s[2])) = 2}}
  IN  IF level = {} THEN {}
      ELSE IF found /= {} THEN found
      ELSE cmd_search_towards(e, distances, queue)

\* 342-375: the search from one Commander.  `level` holds the paths of the
\* queue that have the same length; a neighbour is taken only when it is
\* farther from the foyer than the end of the path, which also keeps it out
\* of `visited`.  A Spymaster at the end of a linear path is returned, and
\* which one of a level comes first is up to the order of the sets.
RECURSIVE cmd_search(_, _, _)
cmd_search(e, distances, level) ==
  LET steps == {s \in level \X Cells :
                  /\ s[2] \in graph(e, s[1][Len(s[1])])
                  /\ distance_of(distances, s[2])
                       > distance_of(distances, s[1][Len(s[1])])}
      found == {Append(s[1], s[2]) : s \in
                  {s \in steps : /\ room_type[s[2]] = "SPYMASTER"
                                 /\ is_linear(e, s[1])}}
      queue == {Append(s[1], s[2]) : s \in
                  {s \in steps : Cardinality(graph(e, s[2])) = 2}}
  IN  IF level = {} THEN {}
      ELSE IF found /= {} THEN found
      ELSE cmd_search(e, distances, queue)

\* 312-377: the paths the validator can return; none when the layout is valid
spy_cmd_violations(e) ==
  LET cmd_positions == {pos \in Cells : room_type[pos] = "COMMANDER"}
      distances == foyer_distances(e)
  IN  UNION {cmd_search(e, distances, {<<cmd_pos>>}) :
               cmd_pos \in {c \in cmd_positions :
                              graph(e, c) /= {} /\ c \in DOMAIN distances}}

\* 284-377: (is_valid, violation_path)
validate_spy_cmd_edges(e) ==
  IF spy_cmd_violations(e) = {}
  THEN {[is_valid |-> TRUE, violation_path |-> <<>>]}
  ELSE {[is_valid |-> FALSE, violation_path |-> path] :
          path \in spy_cmd_violations(e)}

\* the types of the rooms and paths of the layouts looked at, and the cells
\* that have one
LayoutTypes == {"EMPTY", "PATH", "SPYMASTER", "COMMANDER"}
LayoutCells == (Window \cup {<<3, 1>>, <<2, 1>>}) \ {FOYER_POS}

\* A layout as the solver returns it with lazy_spy_cmd: cells of the first
\* two rows with a type, the edges of the auto-connection constraints, every
\* cell of the temple joined to the foyer.
ValidatorInit ==
  /\ now = 0
  /\ state_lock = "free"
  /\ jobs = <<>>
  /\ job_order = <<>>
  /\ job_queue = <<>>
  /\ ip_last_solve = <<>>
  /\ next_id = 0
  /\ req = [t \in RequestThreads |-> IdleReq]
  /\ wk = [w \in Workers |-> IdleWorker]
  /\ proc = [w \in Workers |-> "none"]
  /\ emitted = [w \in Workers |-> 0]
  /\ solution_queue = [w \in Workers |-> <<>>]
  /\ result_queue = [w \in Workers |-> <<>>]
  /\ input_data = NoInput
  /\ callback = NoCallback
  /\ solver = NoSolver
  /\ result = NoResult
  /\ room_type \in
       {t @@ [c \in Cells |-> IF c = FOYER_POS THEN "PATH" ELSE "EMPTY"] :
          t \in [LayoutCells -> LayoutTypes]}
  /\ in_temple = [c \in Cells |-> room_type[c] /= "EMPTY"]
  /\ edge_var \in EdgeAssignments(all_edges)
  /\ \A c \in Cells : in_temple[c] => c \in DOMAIN foyer_distances(edge_var)
  /\ chain_idx = <<>>
  /\ reach_sat = "sat"
  /\ model_status = "layout"

\* 463-465 and 1792: the validator is called with the rooms and edges
Validate ==
  /\ model_status = "layout"
  /\ \E out \in validate_spy_cmd_edges(edge_var) : result' = out
  /\ model_status' = "validated"
  /\ UNCHANGED <<serverVars, input_data, callback, solver, room_type,
                 in_temple, edge_var, chain_idx, reach_sat>>

ValidatorNext == Validate

ValidatorSpec == ValidatorInit /\ [][ValidatorNext]_vars

\* =============================================================== claims
InMap(j) == j \in DOMAIN jobs
Status(j) == jobs[j].status
RunsJob(w, j) == wk[w].pc /= "get" /\ wk[w].job_id = j

\* C1: a job's status changes only along queued->solving, queued->aborted,
\* solving->complete, solving->error, solving->aborted, and a complete,
\* error or aborted job never changes its status again.
C1_StatusTransitions ==
  [][\A j \in JobIds :
       (j \in DOMAIN jobs /\ j \in DOMAIN jobs' /\ jobs'[j].status /= jobs[j].status)
       => <<jobs[j].status, jobs'[j].status>> \in
            {<<"queued", "solving">>, <<"queued", "aborted">>,
             <<"solving", "complete">>, <<"solving", "error">>,
             <<"solving", "aborted">>}]_vars

\* C2: a status lookup of a job in the job map comes to its answer and ends
\* with state_lock released: a thread inside get_job that holds the lock can
\* take its next step.
C2_LookupReleasesLock ==
  \A t \in RequestThreads :
    (req[t].op = "get_job" /\ state_lock = t) => ENABLED call_get_queue_position(t)

\* C3: a job aborted while solving, for which a best-so-far was stored, ends
\* aborted with result = the last best-so-far, and a lookup of the job then
\* returns that best-so-far as the result.
C3_AbortKeepsBest ==
  \A j \in JobIds :
    ( /\ InMap(j)
      /\ Status(j) = "aborted"
      /\ jobs[j].best_solution /= NoSolution
      /\ \A w \in Workers : ~RunsJob(w, j) )
    => /\ jobs[j].result = jobs[j].best_solution
       /\ "result" \in DOMAIN get_job_response(j).body
       /\ get_job_response(j).body.result = jobs[j].best_solution

\* C4: a submit is admitted (its acceptance time written to ip_last_solve)
\* only when its client has no acceptance less than RATE_LIMIT_SECONDS ago,
\* so no two admitted submits of one client lie inside one window.
C4_OneAdmitPerWindow ==
  [][\A t \in RequestThreads :
       (req[t].pc = "admit" /\ req'[t].pc = "put")
       => check_rate_limit(req[t].ip)[1]]_vars

\* C5: the number of queued jobs never exceeds MAX_QUEUE_SIZE.
C5_QueueBounded == get_queue_length <= MAX_QUEUE_SIZE

C7_Abort ==
  /\ [](\A j \in JobIds :
          abort_job_response(j).body.success
          <=> (InMap(j) /\ Status(j) \in {"queued", "solving"}))
  /\ [][\A t \in RequestThreads, j \in JobIds :
          abort_job(t, j)
          => /\ Status(j) \in {"queued", "solving"}
             /\ jobs'[j].status = "aborted"
             /\ jobs'[j].result = jobs[j].result
             /\ jobs'[j].best_solution = jobs[j].best_solution
             /\ \A k \in DOMAIN jobs \ {j} : jobs'[k] = jobs[k]]_vars

\* C7 witness: an abort succeeded on one job while another job is complete
\* or error, where abort answers failure.
C7_Witness ==
  \E j, k \in DOMAIN jobs :
    /\ Status(j) = "aborted"
    /\ Status(k) \in {"complete", "error"}
    /\ ~abort_job_response(k).body.success
    /\ ~abort_job_response(j).body.success

\* C8: after a successful abort of a solving job the worker that runs it
\* ends the subprocess and returns to the queue, and the job stays terminal;
\* a job aborted while queued never gets a subprocess.
C8_AbortEnds ==
  /\ \A j \in JobIds, w \in Workers :
       (RunsJob(w, j) /\ InMap(j) /\ Status(j) = "aborted")
       ~> (~RunsJob(w, j) /\ ~is_alive(w))
  /\ [][\A j \in JobIds :
          (j \in DOMAIN jobs /\ j \in DOMAIN jobs' /\ Status(j) = "aborted")
          => jobs'[j].status \in Terminal]_vars
  /\ [][\A j \in JobIds, w \in Workers :
          ( /\ j \in DOMAIN jobs /\ Status(j) = "aborted"
            /\ \A v \in Workers : ~RunsJob(v, j) )
          => ~(RunsJob(w, j))']_vars

\* C9 as written: while a job stays queued its queue position strictly
\* decreases from step to step, and it is 0 when the job leaves the queue
\* for solving.
C9_StrictlyDecreasingToZero ==
  [][\A j \in JobIds :
       (j \in DOMAIN jobs /\ j \in DOMAIN jobs' /\ Status(j) = "queued")
       => /\ jobs'[j].status = "queued"
             => get_queue_position(j)' < get_queue_position(j)
          /\ jobs'[j].status = "solving" => get_queue_position(j) = 0]_vars

\* C9 amended: while a job stays queued its queue position never increases
\* and is at least 1; the position is 0 exactly for a job that is not
\* queued.
C9_PositionNeverIncreases ==
  /\ [](\A j \in JobIds :
          (get_queue_position(j) = 0) <=> ~(InMap(j) /\ Status(j) = "queued"))
  /\ [][\A j \in JobIds :
          ( /\ j \in DOMAIN jobs /\ j \in DOMAIN jobs'
            /\ Status(j) = "queued" /\ jobs'[j].status = "queued" )
          => /\ get_queue_position(j)' <= get_queue_position(j)
             /\ get_queue_position(j)' >= 1]_vars

\* C9 witness: a queued job has moved up to position 1 although a job
\* entered the job map before it.
C9_Witness ==
  \E j \in DOMAIN jobs :
    /\ Status(j) = "queued"
    /\ get_queue_position(j) = 1
    /\ Len(job_order) >= 2
    /\ job_order[1] /= j

\* C10: with one worker, a job that entered the job map later is never
\* solving while a job that entered it earlier is still queued.
C10_FifoService ==
  MAX_CONCURRENT_SOLVES = 1 =>
    \A i, k \in 1..Len(job_order) :
      i < k => ~( /\ Status(job_order[k]) = "solving"
                  /\ Status(job_order[i]) = "queued" )

\* C11: a rejected submit changes neither the job map nor the FIFO queue nor
\* the per-client map.  A submit passes the rate-limit test only when its
\* client is allowed; a submit that ends at the capacity test or at the
\* validation of its body leaves the three unchanged; the per-client map
\* changes, and a job enters the job map, only in the step in which a
\* validated submit is admitted; the queue grows only by the id of a job
\* that was admitted.
C11_RejectedSubmitFrame ==
  [][
    /\ \A t \in RequestThreads :
         /\ (req[t].pc = "idle" /\ req'[t].pc = "queue_len")
            => (check_rate_limit(req'[t].ip)[1] /\ UNCHANGED sharedVars)
         /\ (req[t].pc = "queue_len" /\ req'[t].pc = "idle")
            => UNCHANGED sharedVars
    /\ (ip_last_solve' /= ip_last_solve \/ ~(DOMAIN jobs' \subseteq DOMAIN jobs))
       => \E u \in RequestThreads :
            /\ req[u].pc = "admit" /\ req'[u].pc = "put"
            /\ DOMAIN jobs' = DOMAIN jobs \cup {req'[u].job_id}
            /\ req'[u].job_id \notin DOMAIN jobs
            /\ ip_last_solve' = record_rate_limit(req[u].ip)
    /\ (Len(job_queue') > Len(job_queue))
       => \E v \in RequestThreads :
            /\ req[v].pc = "put" /\ req'[v].pc = "position"
            /\ job_queue' = Append(job_queue, req[v].job_id)
  ]_vars

\* C11 witness: a submit that passed the rate-limit test stands before a
\* full queue, where it is rejected, while a further submit of client ipA
\* would be rejected as rate limited.
C11_Witness ==
  /\ \E t \in RequestThreads : req[t].pc = "queue_len"
  /\ get_queue_length >= MAX_QUEUE_SIZE
  /\ QueueFull.code = 503
  /\ ~check_rate_limit("ipA")[1]
  /\ RateLimited("ipA").body.retry_after > 0

\* C13: a complete or error job leaves the job map only when more than
\* RESULT_TTL_SECONDS have passed since its completion, a queued or solving
\* job never leaves it, and no complete or error job is in the job map once
\* more than RESULT_TTL_SECONDS have passed since its completion.
C13_TtlEviction ==
  /\ [][\A j \in DOMAIN jobs :
          j \notin DOMAIN jobs'
          => /\ Status(j) \in Terminal
             /\ now - jobs[j].completed_at > RESULT_TTL_SECONDS]_vars
  /\ [](\A j \in DOMAIN jobs :
          Status(j) \in {"complete", "error"}
          => now - jobs[j].completed_at <= RESULT_TTL_SECONDS)

\* C14: when the worker ends a job that is solving and finds no final
\* message, the job becomes error with the message "Solver process crashed"
\* and no result; when it finds an error message, the job becomes error with
\* that message.
C14_CrashBecomesError ==
  [][\A w \in Workers :
       LET id == wk[w].job_id IN
       ( /\ wk[w].pc = "final" /\ wk'[w].pc = "cleanup"
         /\ ~wk[w].aborted
         /\ id \in DOMAIN jobs /\ Status(id) = "solving" )
       => /\ (result_queue[w] = <<>>)
             => ( /\ jobs'[id].status = "error"
                  /\ jobs'[id].error = "Solver process crashed"
                  /\ jobs'[id].result = NoSolution )
          /\ (result_queue[w] /= <<>> /\ Head(result_queue[w]).status = "error")
             => ( /\ jobs'[id].status = "error"
                  /\ jobs'[id].error = Head(result_queue[w]).error
                  /\ jobs'[id].result = NoSolution )]_vars

\* C14 witness: one job ended by a crash and one by an error message
C14_Witness ==
  \E j, k \in DOMAIN jobs :
    /\ Status(j) = "error" /\ jobs[j].error = "Solver process crashed"
    /\ Status(k) = "error" /\ jobs[k].error = "solver exception"

\* C12: the best-so-far solutions the callback delivers and the worker
\* stores are monotonic: the solutions waiting in solution_queue are in
\* non-decreasing order of score and of solution_count and none is below the
\* stored best_solution, and every step that replaces a stored best_solution
\* replaces it by one whose score and solution_count are no smaller.
C12_BestSoFarMonotonic ==
  /\ [](\A w \in Workers :
          LET q == solution_queue[w]
              id == wk[w].job_id
          IN  /\ \A a, b \in 1..Len(q) :
                   a < b => /\ q[a].score <= q[b].score
                            /\ q[a].solution_count <= q[b].solution_count
              /\ (id \in DOMAIN jobs /\ jobs[id].best_solution /= NoSolution)
                 => \A a \in 1..Len(q) :
                      /\ jobs[id].best_solution.score <= q[a].score
                      /\ jobs[id].best_solution.solution_count
                           <= q[a].solution_count)
  /\ [][\A j \in DOMAIN jobs :
          ( /\ j \in DOMAIN jobs'
            /\ jobs[j].best_solution /= NoSolution
            /\ jobs'[j].best_solution /= jobs[j].best_solution )
          => /\ jobs'[j].best_solution.score >= jobs[j].best_solution.score
             /\ jobs'[j].best_solution.solution_count
                  >= jobs[j].best_solution.solution_count]_vars

\* C12 witness: the worker has stored a second best-so-far while a third
\* waits in the queue.
C12_Witness ==
  \E w \in Workers :
    /\ wk[w].job_id \in DOMAIN jobs
    /\ jobs[wk[w].job_id].best_solution /= NoSolution
    /\ jobs[wk[w].job_id].best_solution.score >= 0
    /\ solution_queue[w] /= <<>>

\* C18: with lazy_spy_cmd on, every result solve_temple returns with
\* success = true has a valid verdict of the post-solve validator in stats.
C18_LazyResultValid ==
  (result /= NoResult /\ input_data.lazy_spy_cmd /\ result.success)
  => result.stats.spy_cmd_valid

\* C19: the result follows the final status of the solver: not OPTIMAL or
\* FEASIBLE gives success = false, no rooms, paths or edges and the hints of
\* the pre-check in stats; FEASIBLE gives success = true, optimal = false;
\* OPTIMAL gives success = true, optimal = true.
C19_ResultFollowsStatus ==
  result /= NoResult =>
    /\ result.stats.status = solver.status
    /\ solver.status = "OPTIMAL" => (result.success /\ result.optimal)
    /\ solver.status = "FEASIBLE" => (result.success /\ ~result.optimal)
    /\ solver.status \notin {"OPTIMAL", "FEASIBLE"}
       => /\ ~result.success
          /\ ~result.optimal
          /\ result.rooms = <<>> /\ result.paths = <<>> /\ result.edges = <<>>
          /\ "diagnostic_hints" \in DOMAIN result.stats
          /\ result.stats.diagnostic_hints = diagnose_infeasibility(input_data)

\* C19 witness: a failed solve with hints, its result stored by the worker
C19_Witness ==
  /\ result /= NoResult
  /\ ~result.success
  /\ result.stats.diagnostic_hints /= <<>>
  /\ \E j \in DOMAIN jobs : jobs[j].status = "complete" /\ jobs[j].result = result

\* C20: for a request whose minimum counts do not fit in the grid the result
\* is a failure, the hint list of the pre-check is not empty and has a hint
\* about room capacity (the hint of check 2 or of check 6), and the error of
\* the result carries it.
C20_CapacityHint ==
  (result /= NoResult /\ ~Fits(input_data))
  => /\ ~result.success
     /\ result.stats.diagnostic_hints /= <<>>
     /\ \E k \in 1..Len(result.stats.diagnostic_hints) :
          result.stats.diagnostic_hints[k].check \in {2, 6}
     /\ \E k \in 1..Len(result.error) : result.error[k].check \in {2, 6}

\* the cells joined to the foyer by a path of active edges
RECURSIVE Joined(_, _)
Joined(e, S) ==
  LET T == S \cup {c \in Cells : \E d \in S :
                     c \in get_neighbors(d) /\ connected(e, c, d)}
  IN  IF T = S THEN S ELSE Joined(e, T)

HasCycle(e) ==
  \E a, b, c, d \in Cells :
    /\ Cardinality({a, b, c, d}) = 4
    /\ <<a, b>> \in all_edges /\ e[<<a, b>>]
    /\ <<c, d>> \in all_edges /\ e[<<c, d>>]
    /\ <<a, c>> \in all_edges /\ e[<<a, c>>]
    /\ <<b, d>> \in all_edges /\ e[<<b, d>>]

\* C15: in every assignment that satisfies the auto-connection constraints,
\* and so in every accepted one, the edge variable of each adjacent pair is 1
\* if and only if both cells are in the temple and their types are
\* compatible (Path with any non-Empty type, rooms by the symmetric
\* catalogue, Empty with nothing); the edges of a returned solution are
\* exactly these pairs.
C15_EdgeIffCompatible ==
  /\ (model_status /= "candidate" /\ BasicConstraints) =>
       \A p \in all_edges :
         edge_var[p] <=>
           /\ in_temple[p[1]] /\ in_temple[p[2]]
           /\ room_type[p[1]] /= "EMPTY" /\ room_type[p[2]] /= "EMPTY"
           /\ \/ room_type[p[1]] = "PATH"
              \/ room_type[p[2]] = "PATH"
              \/ room_type[p[2]] \in SULOZOR_ADJACENCY(room_type[p[1]])
              \/ room_type[p[1]] \in SULOZOR_ADJACENCY(room_type[p[2]])
  /\ result /= NoResult =>
       result.edges =
         {p \in all_edges :
            /\ in_temple[p[1]] /\ in_temple[p[2]]
            /\ <<room_type[p[1]], room_type[p[2]]>> \in compatible_type_pairs}

\* C15 witness: a returned solution with an edge between two rooms and with
\* two adjacent in-temple rooms of incompatible types, which have no edge
C15_Witness ==
  /\ result /= NoResult
  /\ \E p \in result.edges :
       room_type[p[1]] /= "PATH" /\ room_type[p[2]] /= "PATH"
  /\ \E p \in all_edges \ result.edges :
       in_temple[p[1]] /\ in_temple[p[2]]

\* C16: the reach_dist constraints have a solution exactly when every
\* in-temple cell is joined to the foyer by a path of active edges.
C16_ReachIsConnectivity ==
  reach_sat /= "unchecked" =>
    (reach_sat = "sat"
       <=> \A c \in Cells : in_temple[c] => c \in Joined(edge_var, {FOYER_POS}))

\* C16 witness: an accepted layout whose active edges form a cycle, and its
\* reach_dist constraints are satisfiable
C16_Witness ==
  /\ model_status = "accepted"
  /\ reach_sat = "sat"
  /\ HasCycle(edge_var)

\* C17: no accepted assignment has, for a forbidden triple (A,B,C), a cell
\* of type B with active edges to two distinct neighbours of types A and C.
C17_NoBannedChain ==
  model_status = "accepted" =>
    ~ \E k \in 1..Len(CHAIN_BANS) : \E pos \in Cells :
        \E na, nc \in get_neighbors(pos) :
          /\ na /= nc
          /\ room_type[pos] = CHAIN_BANS[k][2]
          /\ room_type[na] = CHAIN_BANS[k][1]
          /\ room_type[nc] = CHAIN_BANS[k][3]
          /\ connected(edge_var, pos, na)
          /\ connected(edge_var, pos, nc)

\* C25: the pre-check emits the architect-distance hint exactly when the
\* existing rooms are locked, at least one existing cell is supplied and the
\* architect's Manhattan distance to the nearest existing cell exceeds
\* max_paths + 1; it emits no such hint otherwise.
C25_DistanceHint ==
  (result /= NoResult /\ ~result.success) =>
    LET hints == result.stats.diagnostic_hints
        hinted == \E k \in 1..Len(hints) :
                    hints[k] = Hint(5, "Architect is too far from the nearest room for max_paths")
        existing == all_existing(input_data)
    IN  hinted <=>
          /\ input_data.lock_existing
          /\ existing /= {}
          /\ MinOf({Manhattan(input_data.architect_pos, p) : p \in existing})
               > input_data.max_paths + 1

\* C27: when the lazy check rejects an improving layout in the callback,
\* best_score and best_solution are unchanged and nothing is streamed; only
\* the rejected counter and the solution counter advance.
C27_RejectionFrame ==
  [][ ( /\ input_data.lazy_spy_cmd
        /\ Len(solver'.found) = Len(solver.found) + 1
        /\ solver'.found[Len(solver'.found)].score > callback.best_score
        /\ solver'.found[Len(solver'.found)].spy_after_cmd )
      => /\ callback' = [callback EXCEPT !.solution_count = @ + 1,
                                         !.rejected_count = @ + 1]
         /\ UNCHANGED <<solution_queue, result_queue, jobs, result>> ]_vars

\* C27 witness: a layout was rejected after a best-so-far had been recorded
C27_Witness ==
  /\ input_data.lazy_spy_cmd
  /\ callback.rejected_count >= 1
  /\ callback.best_solution /= NoSolution
  /\ solver.found[Len(solver.found)].spy_after_cmd
  /\ solver.found[Len(solver.found)].score > callback.best_score

\* C28: the score field of every best-so-far handed to the streaming
\* callback, and of the final result of the lazy path, is the total value of
\* that same solution.
C28_ScoreIsTotalValue ==
  /\ \A w \in Workers : \A k \in 1..Len(solution_queue[w]) :
       solution_queue[w][k].score
         = solver.found[solution_queue[w][k].layout].score
  /\ ( /\ result /= NoResult
       /\ result.success
       /\ input_data.lazy_spy_cmd
       /\ callback.best_solution /= NoSolution )
     => result.score = solver.found[callback.best_solution.layout].score

\* C30: when a solve completes with success, the score of the final result
\* stored for the job is at least the score of every best-so-far streamed
\* for it, whatever junction_penalty and empty_penalty are.
C30_FinalAtLeastStreamed ==
  \A id \in DOMAIN jobs :
    ( /\ jobs[id].status = "complete"
      /\ jobs[id].result /= NoSolution
      /\ jobs[id].result.success
      /\ jobs[id].best_solution /= NoSolution )
    => jobs[id].result.score >= jobs[id].best_solution.score

\* C26: when the subprocess reports a new best-so-far while the bounded
\* channel to the worker is full, the oldest queued solution is dropped and
\* the new one is enqueued, so the most recent best-so-far reaches the worker.
C26_DropOldest ==
  [][ \A w \in Workers :
        ( /\ callback'.best_solution /= callback.best_solution
          /\ Len(solution_queue[w]) = SOLUTION_QUEUE_MAXSIZE )
        => solution_queue'[w]
             = Append(Tail(solution_queue[w]), callback'.best_solution) ]_vars

\* C29: under fair scheduling, with every subprocess eventually exiting or
\* killed, every admitted job eventually is complete, in error or aborted
\* (or evicted after that), every worker returns to waiting on the job
\* queue, and no request thread waits forever for the state lock, whatever
\* lookups, aborts and submissions are mixed.
C29_EveryJobEnds ==
  /\ \A j \in JobIds :
       InMap(j) ~> (~InMap(j) \/ Status(j) \in Terminal)
  /\ \A w \in Workers :
       (wk[w].pc /= "get") ~> (wk[w].pc = "get")
  /\ \A t \in LiveThreads :
       (req[t].pc /= "idle") ~> (req[t].pc = "idle")

\* C21: with the lazy check off, no accepted assignment has a cell with
\* active edges to both a Spymaster neighbour and a Commander neighbour
\* unless that cell has three or more active edges; for a cell with fewer
\* than three neighbours in the grid the pattern never occurs.
C21_SpyCmdNeedsJunction ==
  (model_status = "accepted" /\ ~input_data.lazy_spy_cmd) =>
    \A pos \in Cells : \A n1, n2 \in get_neighbors(pos) :
      ( /\ room_type[n1] = "SPYMASTER"
        /\ room_type[n2] = "COMMANDER"
        /\ connected(edge_var, pos, n1)
        /\ connected(edge_var, pos, n2) )
      => /\ num_connections(edge_var, pos) >= 3
         /\ Cardinality(grid_neighbors(pos)) >= 3

\* C23: for every request with max_neighbors < 4, in any snake_mode and with
\* any junction_penalty, every in-temple cell of an accepted assignment has
\* at most max_neighbors active edges.
C23_MaxNeighbors ==
  (model_status = "accepted" /\ input_data.max_neighbors < 4) =>
    \A pos \in Cells :
      in_temple[pos]
        => num_connections(edge_var, pos) <= input_data.max_neighbors

\* C24: with chains configured, every in-temple cell other than the foyer
\* and the architect has a chain_idx that names one of the configured chains,
\* and the type of the cell is one of that chain's allowed types (any type
\* when the chain's roomTypes is empty).
C24_CellsInConfiguredChain ==
  (model_status = "accepted" /\ input_data.chains /= <<>>) =>
    \A pos \in chain_cells :
      in_temple[pos] =>
        /\ chain_idx[pos] \in 0..(Len(input_data.chains) - 1)
        /\ room_type[pos]
             \in allowed_types(input_data.chains[chain_idx[pos] + 1])

\* the cells joined to `from` by a path whose interior cells all have
\* exactly two edges
RECURSIVE LinearReach(_, _, _)
LinearReach(e, from, reached) ==
  LET through == {c \in reached : c = from \/ Cardinality(graph(e, c)) = 2}
      more == reached \cup UNION {graph(e, c) : c \in through}
  IN  IF more = reached THEN reached ELSE LinearReach(e, from, more)

\* a Commander and a Spymaster joined by such a path, the Spymaster
\* farther from the foyer than the Commander
SpyAfterCmd(e, cmd, spy) ==
  LET distances == foyer_distances(e) IN
  /\ room_type[cmd] = "COMMANDER"
  /\ room_type[spy] = "SPYMASTER"
  /\ spy \in LinearReach(e, cmd, {cmd})
  /\ cmd \in DOMAIN distances /\ spy \in DOMAIN distances
  /\ distances[spy] > distances[cmd]

\* the cells joined to `from` by a path on which every cell is farther from
\* the foyer than the one before it, and whose interior cells have exactly
\* two edges and are no Spymasters
RECURSIVE AwayReach(_, _, _)
AwayReach(e, from, reached) ==
  LET distances == foyer_distances(e)
      through == {c \in reached :
                    \/ c = from
                    \/ /\ Cardinality(graph(e, c)) = 2
                       /\ room_type[c] /= "SPYMASTER"}
      more == reached \cup {b \in Cells : \E c \in through :
                              /\ b \in graph(e, c)
                              /\ distances[b] > distances[c]}
  IN  IF more = reached THEN reached ELSE AwayReach(e, from, more)

\* a Spymaster at the end of such a path from a Commander
SpyAwayFromCmd(e, cmd, spy) ==
  /\ room_type[cmd] = "COMMANDER"
  /\ room_type[spy] = "SPYMASTER"
  /\ spy \in AwayReach(e, cmd, {cmd})

\* C22 as written: the validator returns invalid exactly when some Commander
\* and some Spymaster are joined by a path whose interior cells all have
\* degree two and the Spymaster's breadth-first distance from the foyer is
\* greater than the Commander's; the path it returns starts at such a
\* Commander and ends at such a Spymaster.
C22_ValidatorVerdict ==
  model_status = "validated" =>
    /\ ~result.is_valid
         <=> \E cmd, spy \in Cells : SpyAfterCmd(edge_var, cmd, spy)
    /\ ~result.is_valid
         => SpyAfterCmd(edge_var, result.violation_path[1],
                        result.violation_path[Len(result.violation_path)])

\* C22 amended: the validator returns invalid exactly when some Commander and
\* some Spymaster are joined by a path that moves away from the foyer at
\* every step (each cell has a greater breadth-first distance than the one
\* before) and whose interior cells all have degree two; the path it
\* returns is such a path: it starts at the Commander, ends at the Spymaster
\* and follows edges away from the foyer.
C22_ValidatorVerdictAway ==
  model_status = "validated" =>
    /\ ~result.is_valid
         <=> \E cmd, spy \in Cells : SpyAwayFromCmd(edge_var, cmd, spy)
    /\ ~result.is_valid
         => LET path == result.violation_path
                distances == foyer_distances(edge_var)
            IN  /\ SpyAwayFromCmd(edge_var, path[1], path[Len(path)])
                /\ \A k \in 1..(Len(path) - 1) :
                     /\ path[k + 1] \in graph(edge_var, path[k])
                     /\ distances[path[k + 1]] > distances[path[k]]
                /\ \A k \in 2..(Len(path) - 1) :
                     Cardinality(graph(edge_var, path[k])) = 2

\* C22 witness: the validator returned a path with a cell between the
\* Commander and the Spymaster
C22_Witness ==
  /\ model_status = "validated"
  /\ ~result.is_valid
  /\ Len(result.violation_path) >= 3

====
